---- MODULE Spec2Model ----
(***************************************************************************)
(* Model of the kdi-alignment merge engine (carlocorradini/kdi-alignment).  *)
(*                                                                         *)
(* Two generations of the builders live in the repository:                 *)
(*   - src/kdi/align.rs : the align_* builders over the Location model;    *)
(*   - src/main.rs      : main() and the builders it drives.               *)
(* Strings are sequences of one-character strings, compared byte-wise as   *)
(* Rust's String::cmp does.                                                *)
(***************************************************************************)
EXTENDS Integers, Sequences, FiniteSets, TLC

VARIABLES
    ns_in,                  \* namespacer harness: the two (tier, raw id) inputs
    ns_out,                 \* namespacer harness: the two canonical ids
    gtfs,                   \* tier -> parsed GTFS feed (maps in their iteration order)
    archive,                \* tier -> fare archive (zones.txt, fare tables)
    kml,                    \* family -> placemarks of the KML feed
    bike_sharing,           \* records of the bike sharing JSON feed
    first,                  \* the tier the assembler runs first
    pc,                     \* index of the next builder call of the schedule
    status,                 \* "running", "done" or "aborted"
    locations,
    calendar_exceptions,
    calendars,
    fare_rules,
    parking_stops,
    fares,
    bike_sharing_stops,
    public_transport_stops,
    stop_times,
    trips,
    routes,
    agencies,               \* main.rs: tier -> the agencies of the feed
    mem,                    \* main.rs: the local collections of main
    files                   \* main.rs: the fs::write calls so far, in order

vars == <<ns_in, ns_out, gtfs, archive, kml, bike_sharing, first, pc, status,
          locations, calendar_exceptions, calendars, fare_rules, parking_stops,
          fares, bike_sharing_stops, public_transport_stops, stop_times, trips,
          routes, agencies, mem, files>>

(***************************************************************************)
(* Strings                                                                 *)
(***************************************************************************)

\* Byte value of the characters the model uses (ASCII).
OrdTable ==
    [c \in {"0", "1", "2", "3", "4", "5", "6", "7", "8", "9", "B", "C", "E", "I", "N",
            "O", "P", "S", "T", "U", "X", "Z", "_", "-", ":", ".", ","} |->
        CASE c = "0" -> 48 [] c = "1" -> 49 [] c = "2" -> 50 [] c = "3" -> 51
          [] c = "4" -> 52 [] c = "5" -> 53 [] c = "6" -> 54 [] c = "7" -> 55
          [] c = "8" -> 56 [] c = "9" -> 57
          [] c = "B" -> 66 [] c = "C" -> 67 [] c = "E" -> 69 [] c = "I" -> 73
          [] c = "N" -> 78 [] c = "O" -> 79 [] c = "P" -> 80 [] c = "S" -> 83
          [] c = "T" -> 84 [] c = "U" -> 85 [] c = "X" -> 88 [] c = "Z" -> 90
          [] c = "_" -> 95 [] c = "-" -> 45 [] c = ":" -> 58 [] c = "." -> 46
          [] c = "," -> 44]

Ord(c) == OrdTable[c]

\* usize::cmp
NumCmp(a, b) == IF a < b THEN -1 ELSE IF a > b THEN 1 ELSE 0

\* <str as Ord>::cmp from byte i on: the first byte that differs decides, and
\* a proper prefix is the smaller string.
RECURSIVE StrCmpFrom(_, _, _)
StrCmpFrom(a, b, i) ==
    IF i > Len(a) \/ i > Len(b) THEN NumCmp(Len(a), Len(b))
    ELSE IF a[i] = b[i] THEN StrCmpFrom(a, b, i + 1)
    ELSE NumCmp(Ord(a[i]), Ord(b[i]))

\* Ordering::Less / Equal / Greater of <str as Ord>::cmp, as -1 / 0 / 1.
StrCmp(a, b) == StrCmpFrom(a, b, 1)

\* Ordering::then_with
ThenWith(c, d) == IF c # 0 THEN c ELSE d

DigitChar(d) == <<"0", "1", "2", "3", "4", "5", "6", "7", "8", "9">>[d + 1]

\* usize::to_string / "{}" of an integer: decimal, no padding.
RECURSIVE to_string(_)
to_string(n) ==
    IF n < 10 THEN <<DigitChar(n)>>
    ELSE to_string(n \div 10) \o <<DigitChar(n % 10)>>

\* "{:02}" / "{:04}" of chrono's %m, %d, %H, %M, %S / %Y: zero padded to width w.
RECURSIVE Pad(_, _)
Pad(n, w) == IF w = 0 THEN <<>> ELSE Pad(n \div 10, w - 1) \o <<DigitChar(n % 10)>>

\* slice::sort_by: a stable sort under the comparator Cmp (-1 / 0 / 1).
SortBy(s, Cmp(_, _)) ==
    LET v   == <<>> \o s
        n   == Len(v)
        \* v[j] comes before v[i]: it is smaller, or equal and earlier in v.
        Before(j, i) == LET c == Cmp(v[j], v[i]) IN c < 0 \/ (c = 0 /\ j < i)
        pos == <<>> \o [i \in 1..n |-> 1 + Cardinality({j \in 1..n : Before(j, i)})]
    IN  [k \in 1..n |-> v[CHOOSE i \in 1..n : pos[i] = k]]

\* Whether s is in non-decreasing order under Cmp.
IsSortedBy(s, Cmp(_, _)) == \A i \in 1..Len(s) - 1 : Cmp(s[i], s[i + 1]) <= 0

\* Sequences over S of length at most n.
SeqsUpTo(S, n) == UNION {[1..k -> S] : k \in 0..n}

\* Sequences over S of length at most n without repeated elements.
SeqsNoDup(S, n) == {s \in SeqsUpTo(S, n) : \A i, j \in 1..Len(s) : i # j => s[i] # s[j]}

Range(s) == {s[i] : i \in 1..Len(s)}

\* Option<T>: None is the empty sequence, Some(x) the one-element sequence.
None == <<>>
Some(x) == <<x>>
IsSome(o) == Len(o) = 1
Unwrap(o) == o[1]

Min(S) == CHOOSE x \in S : \A y \in S : x <= y
Max(S) == CHOOSE x \in S : \A y \in S : x >= y

\* Concatenation of a sequence of sequences (a nested for loop's visiting order).
RECURSIVE Flatten(_)
Flatten(ss) == IF ss = <<>> THEN <<>> ELSE Head(ss) \o Flatten(Tail(ss))

(***************************************************************************)
(* A builder's loop.  Step(item, i) is the body for the i-th item (1-based) *)
(* and yields [res, val]: res is "Ok" and val the entity pushed, or res is  *)
(* "Err" (a `?` returning Err) or "Panic" (unwrap, assert!, panic!).  The   *)
(* loop pushes until the first item that is not "Ok" and then leaves the    *)
(* function: what was pushed before stays in the accumulator.               *)
(***************************************************************************)
Loop(acc, items, Step(_, _)) ==
    LET n    == Len(items)
        step == [i \in 1..n |-> Step(items[i], i)]
        bad  == {i \in 1..n : step[i].res # "Ok"}
        stop == IF bad = {} THEN n + 1 ELSE Min(bad)
    IN  [res |-> IF bad = {} THEN "Ok" ELSE step[stop].res,
         acc |-> acc \o [i \in 1..stop - 1 |-> step[i].val]]

\* The sort that ends a builder: reached only when the loops returned no error.
Sorted(r, Cmp(_, _)) == IF r.res = "Ok" THEN [res |-> "Ok", acc |-> SortBy(r.acc, Cmp)] ELSE r

Ok(v) == [res |-> "Ok", val |-> v]
Err == [res |-> "Err", val |-> <<>>]
Panic == [res |-> "Panic", val |-> <<>>]

(***************************************************************************)
(* Identifier namespacer                                                   *)
(***************************************************************************)

Urban == "Urban"
ExtraUrban == "ExtraUrban"
TT == {Urban, ExtraUrban}

\* impl Display for TT, with both tiers printed alike.
TTDisplaySame(tt) == <<"U">>

\* impl Display for TT
TTDisplay(tt) == IF tt = ExtraUrban THEN <<"E", "U">> ELSE <<"U">>

\* format!("{}_{}", tt, id)
to_correct_id(tt, id) == TTDisplay(tt) \o <<"_">> \o id

\* format!("ZONE_{}", s)
ZonePrefix(s) == <<"Z", "O", "N", "E", "_">> \o s

(***************************************************************************)
(* Parsing helpers of the KML builders                                     *)
(***************************************************************************)

IsDigit(c) == Ord(c) >= 48 /\ Ord(c) <= 57

\* Value of a string of decimal digits.
RECURSIVE StrToNat(_)
StrToNat(s) ==
    IF s = <<>> THEN 0
    ELSE 10 * StrToNat(SubSeq(s, 1, Len(s) - 1)) + (Ord(s[Len(s)]) - 48)

\* str::split(','): the pieces between the commas, empty pieces included.
RECURSIVE Split(_)
Split(s) ==
    LET commas == {i \in 1..Len(s) : s[i] = ","}
    IN  IF commas = {} THEN <<s>>
        ELSE <<SubSeq(s, 1, Min(commas) - 1)>> \o Split(SubSeq(s, Min(commas) + 1, Len(s)))

\* str::parse::<f64> on the decimal notation the feeds use (digits with at most
\* one '.'): None for anything else, Some(value) otherwise, the value counted in
\* hundredths (the feeds of the model carry at most two fractional digits).
ParseF64(s) ==
    LET dots  == {i \in 1..Len(s) : s[i] = "."}
        dot   == IF dots = {} THEN Len(s) + 1 ELSE Min(dots)
        int   == SubSeq(s, 1, dot - 1)
        frac  == SubSeq(s, dot + 1, Len(s))
        frac2 == SubSeq(frac \o <<"0", "0">>, 1, 2)
    IN  IF /\ Cardinality(dots) <= 1
           /\ Len(int) + Len(frac) >= 1
           /\ \A i \in 1..Len(s) : i \in dots \/ IsDigit(s[i])
        THEN Some(100 * StrToNat(int) + StrToNat(frac2))
        ELSE None

\* str::parse::<usize>: None unless the string is a non-empty run of digits.
ParseUsize(s) ==
    IF s # <<>> /\ \A i \in 1..Len(s) : IsDigit(s[i]) THEN Some(StrToNat(s)) ELSE None

\* A lookup that falls back on the last field when no field has the name.
FindOrLast(datas, from, name) ==
    LET hits == {i \in from..Len(datas) : datas[i].name = name}
    IN  IF hits = {} THEN Len(datas) ELSE Min(hits)

\* Iterator::find(|d| d.name == name) on the iterator standing before position
\* `from` of datas: the position of the match, or 0 when the iterator runs out.
\* The iterator is left standing right after the match.
Find(datas, from, name) ==
    LET hits == {i \in from..Len(datas) : datas[i].name = name}
    IN  IF hits = {} THEN 0 ELSE Min(hits)

\* The coordinates read from the first two components, whatever follows them.
CoordinateTruncating(placemark) ==
    LET parts == Split(placemark.coordinates)
    IN  IF \E i \in 1..Len(parts) : ParseF64(parts[i]) = None THEN None
        ELSE IF Len(parts) < 2 THEN None
        ELSE Some([i \in 1..2 |-> Unwrap(ParseF64(parts[i]))])

\* placemark.point.coordinates.split(',').map(|c| c.parse::<f64>().unwrap())
\* followed by assert!(coordinate.len() == 2): the two numbers, or None on a panic.
Coordinate(placemark) ==
    LET parts == Split(placemark.coordinates)
    IN  IF \E i \in 1..Len(parts) : ParseF64(parts[i]) = None THEN None
        ELSE IF Len(parts) # 2 THEN None
        ELSE Some([i \in 1..2 |-> Unwrap(ParseF64(parts[i]))])

(***************************************************************************)
(* kdi/align.rs: Location builders                                         *)
(***************************************************************************)

IdCmp(a, b) == StrCmp(a.id, b.id)

\* The zone id without the ZONE_ prefix.
ZoneIdNoPrefix(tt, zone) == to_correct_id(tt, zone.id)

\* id: format!("ZONE_{}", to_correct_id(&tt, &zone.id))
ZoneId(tt, zone) == ZonePrefix(to_correct_id(tt, zone.id))

align_location_zone(arch, acc, tt) ==
    LET Step(zone, i) ==
            IF ~zone.valid THEN Err
            ELSE Ok([id        |-> ZoneId(tt, zone),
                     name      |-> zone.name,
                     latitude  |-> zone.latitude,
                     longitude |-> zone.longitude])
    IN  Sorted(Loop(acc, arch.zones, Step), IdCmp)

\* The stop builder that keeps only the stops of its own call.
align_location_public_transport_stop_overwriting(feed, acc, tt) ==
    LET Step(stop, i) ==
            Ok([id        |-> to_correct_id(tt, stop.id),
                name      |-> stop.name,
                latitude  |-> Unwrap(stop.latitude),
                longitude |-> Unwrap(stop.longitude)])
    IN  Sorted(Loop(<<>>, feed.stops, Step), IdCmp)

align_location_public_transport_stop(feed, acc, tt) ==
    LET Step(stop, i) ==
            IF ~IsSome(stop.latitude) \/ ~IsSome(stop.longitude) THEN Panic
            ELSE Ok([id        |-> to_correct_id(tt, stop.id),
                     name      |-> stop.name,
                     latitude  |-> Unwrap(stop.latitude),
                     longitude |-> Unwrap(stop.longitude)])
    IN  Sorted(Loop(acc, feed.stops, Step), IdCmp)

\* The body of the KML location builders with the first component read as the
\* latitude.
KmlLocationLatitudeFirst(prefix, field, placemark, i) ==
    LET datas == placemark.simple_datas
        c     == Coordinate(placemark)
        at    == Find(datas, 1, field)
    IN  IF c = None \/ at = 0 THEN Panic
        ELSE Ok([id        |-> prefix \o <<"_">> \o to_string(i - 1),
                 name      |-> datas[at].value,
                 latitude  |-> Unwrap(c)[1],
                 longitude |-> Unwrap(c)[2]])

\* The body shared by the four KML location builders: id "<prefix>_<i>" with the
\* 0-based position i, name from the field `field`, (lon, lat) swapped.
KmlLocation(prefix, field, placemark, i) ==
    LET datas == placemark.simple_datas
        c     == Coordinate(placemark)
        at    == Find(datas, 1, field)
    IN  IF c = None \/ at = 0 THEN Panic
        ELSE Ok([id        |-> prefix \o <<"_">> \o to_string(i - 1),
                 name      |-> datas[at].value,
                 latitude  |-> Unwrap(c)[2],
                 longitude |-> Unwrap(c)[1]])

align_location_car_sharing(car_sharing, acc) ==
    LET Step(placemark, i) == KmlLocation(<<"C", "S">>, "nomepos", placemark, i)
    IN  Sorted(Loop(acc, car_sharing, Step), IdCmp)

align_location_centro_in_bici(centro_in_bici, acc) ==
    LET Step(placemark, i) == KmlLocation(<<"C", "I", "B">>, "desc", placemark, i)
    IN  Sorted(Loop(acc, centro_in_bici, Step), IdCmp)

align_location_parcheggio_protetto_biciclette(parcheggio_protetto_biciclette, acc) ==
    LET Step(placemark, i) == KmlLocation(<<"P", "P", "B">>, "park", placemark, i)
    IN  Sorted(Loop(acc, parcheggio_protetto_biciclette, Step), IdCmp)

align_location_taxi(taxi, acc) ==
    LET Step(placemark, i) == KmlLocation(<<"T", "X">>, "nome", placemark, i)
    IN  Sorted(Loop(acc, taxi, Step), IdCmp)

\* No sort ends this builder.
align_location_bike_sharing(bs_feed, acc) ==
    LET Step(bs, i) ==
            IF Len(bs.position) # 2 THEN Panic
            ELSE Ok([id        |-> <<"B", "S", "_">> \o bs.id,
                     name      |-> bs.name,
                     latitude  |-> bs.position[1],
                     longitude |-> bs.position[2]])
        r == Loop(acc, bs_feed, Step)
    IN  [res |-> r.res, acc |-> r.acc]

(***************************************************************************)
(* kdi/enums.rs: vocabulary mappers                                        *)
(***************************************************************************)

\* impl From<Availability> for KdiSupportedEnum
KdiSupportedEnumFromAvailability(availability) ==
    CASE availability = "Available"    -> "Supported"
      [] availability = "NotAvailable" -> "NotSupported"
      [] OTHER                         -> "Unknown"

\* The bikes-allowed mapper without the Unknown bucket.
KdiSupportedEnumFromBikesAllowedTypeNoDefault(bikes_allowed_type) ==
    IF bikes_allowed_type = "AtLeastOneBike" THEN "Supported" ELSE "NotSupported"

\* impl From<BikesAllowedType> for KdiSupportedEnum
KdiSupportedEnumFromBikesAllowedType(bikes_allowed_type) ==
    CASE bikes_allowed_type = "AtLeastOneBike" -> "Supported"
      [] bikes_allowed_type = "NoBikesAllowed" -> "NotSupported"
      [] OTHER                                 -> "Unknown"

\* impl From<DirectionType> for KdiDirectionEnum
KdiDirectionEnumFrom(direction_type) ==
    IF direction_type = "Outbound" THEN "Outbound" ELSE "Inbound"

\* impl From<Exception> for KdiExceptionEnum
KdiExceptionEnumFrom(exception) ==
    IF exception = "Added" THEN "Added" ELSE "Removed"

\* The route-type mapper with a default for the codes it has no value for.
KdiTransportEnumFromDefaulting(route_type) ==
    IF route_type \in {"Rail", "Bus", "CableCar"} THEN Some(route_type) ELSE Some("Bus")

\* impl From<RouteType> for KdiTransportEnum: None stands for the panic!.
KdiTransportEnumFrom(route_type) ==
    CASE route_type = "Rail"     -> Some("Rail")
      [] route_type = "Bus"      -> Some("Bus")
      [] route_type = "CableCar" -> Some("CableCar")
      [] OTHER                   -> None

(***************************************************************************)
(* chrono formatting                                                       *)
(***************************************************************************)

SecondsPerDay == 86400

\* NaiveDate::from_ymd(y, m, d) for the months the builders use: None stands
\* for the panic on a day outside the month.
DaysInMonth(y, m) ==
    IF m = 2 THEN (IF y % 4 = 0 /\ (y % 100 # 0 \/ y % 400 = 0) THEN 29 ELSE 28)
    ELSE IF m \in {4, 6, 9, 11} THEN 30 ELSE 31

from_ymd(y, m, d) ==
    IF m >= 1 /\ m <= 12 /\ d >= 1 /\ d <= DaysInMonth(y, m)
    THEN Some([year |-> y, month |-> m, day |-> d])
    ELSE None

\* date.and_time(time).format("%Y-%m-%dT%H:%M:%S").to_string(), the time given
\* as seconds from midnight.
FormatDateTime(date, secs) ==
    Pad(date.year, 4) \o <<"-">> \o Pad(date.month, 2) \o <<"-">> \o Pad(date.day, 2)
        \o <<"T">> \o Pad(secs \div 3600, 2) \o <<":">> \o Pad((secs \div 60) % 60, 2)
        \o <<":">> \o Pad(secs % 60, 2)

\* The timestamp that keeps the first day of the epoch month whatever the value.
StopTimeStampFirstDay(time) ==
    Some(FormatDateTime([year |-> 0, month |-> 1, day |-> 1], time % SecondsPerDay))

\* The stop-time timestamp of a seconds-since-midnight value: None on the panic
\* of from_ymd.
StopTimeStamp(time) ==
    LET date == from_ymd(0, 1, 1 + (time \div SecondsPerDay))
    IN  IF date = None THEN None
        ELSE Some(FormatDateTime(Unwrap(date), time % SecondsPerDay))

(***************************************************************************)
(* kdi/align.rs: GTFS builders                                             *)
(***************************************************************************)

\* calendar_exceptions.sort_by(|a, b| a.id.cmp(&b.id))
CalendarExceptionCmp(a, b) == StrCmp(a.id, b.id)

align_calendar_exception(feed, acc, tt) ==
    LET index == Len(acc)
        cds   == Flatten([k \in 1..Len(feed.calendar_dates) |-> feed.calendar_dates[k].dates])
        Step(cd, i) ==
            Ok([id        |-> to_string(index + i - 1),
                calendar  |-> to_correct_id(tt, cd.service_id),
                date      |-> FormatDateTime(cd.date, 0),
                exception |-> KdiExceptionEnumFrom(cd.exception_type)])
    IN  Sorted(Loop(acc, cds, Step), CalendarExceptionCmp)

align_calendar(feed, acc, tt) ==
    LET Step(calendar, i) ==
            Ok([id         |-> to_correct_id(tt, calendar.id),
                start_date |-> FormatDateTime(calendar.start_date, 0),
                end_date   |-> FormatDateTime(calendar.end_date, 0),
                monday     |-> calendar.monday,
                tuesday    |-> calendar.tuesday,
                wednesday  |-> calendar.wednesday,
                thursday   |-> calendar.thursday,
                friday     |-> calendar.friday,
                saturday   |-> calendar.saturday,
                sunday     |-> calendar.sunday])
    IN  Sorted(Loop(acc, feed.calendar, Step), IdCmp)

LocationCmp(a, b) == StrCmp(a.location, b.location)

align_public_transport_stop(feed, acc, tt) ==
    LET Step(stop, i) ==
            Ok([id        |-> to_correct_id(tt, stop.id),
                location  |-> to_correct_id(tt, stop.id),
                zone      |-> IF IsSome(stop.zone_id)
                              THEN Some(ZonePrefix(to_correct_id(tt, Unwrap(stop.zone_id))))
                              ELSE None,
                ptype     |-> <<>>,
                weelchair |-> KdiSupportedEnumFromAvailability(stop.wheelchair_boarding)])
    IN  Sorted(Loop(acc, feed.stops, Step), LocationCmp)

\* a.trip.cmp(&b.trip).then_with(|| a.sequence.cmp(&b.sequence))
StopTimeCmp(a, b) == ThenWith(StrCmp(a.trip, b.trip), NumCmp(a.sequence, b.sequence))

\* Option::map over the timestamp: None stays None, Some(time) is decoded.
MapStamp(t) == IF IsSome(t) THEN StopTimeStamp(Unwrap(t)) ELSE None

\* The stop of a stop time under its raw id.
StopTimeStopRaw(tt, stop_time) == stop_time.stop.id

\* stop: to_correct_id(&tt, &stop_time.stop.id)
StopTimeStop(tt, stop_time) == to_correct_id(tt, stop_time.stop.id)

align_stop_time(feed, acc, tt) ==
    LET sts == Flatten([k \in 1..Len(feed.trips) |->
                   [j \in 1..Len(feed.trips[k].stop_times) |->
                       [trip |-> feed.trips[k], stop_time |-> feed.trips[k].stop_times[j]]]])
        Bad(t) == IsSome(t) /\ StopTimeStamp(Unwrap(t)) = None
        Step(x, i) ==
            IF Bad(x.stop_time.arrival_time) \/ Bad(x.stop_time.departure_time) THEN Panic
            ELSE Ok([id        |-> to_correct_id(tt, x.trip.id) \o <<"_">>
                                      \o to_correct_id(tt, x.stop_time.stop.id),
                     trip      |-> to_correct_id(tt, x.trip.id),
                     stop      |-> StopTimeStop(tt, x.stop_time),
                     arrival   |-> MapStamp(x.stop_time.arrival_time),
                     departure |-> MapStamp(x.stop_time.departure_time),
                     sequence  |-> x.stop_time.stop_sequence])
    IN  Sorted(Loop(acc, sts, Step), StopTimeCmp)

align_trip(feed, acc, tt) ==
    LET Step(trip, i) ==
            IF ~IsSome(trip.trip_headsign) \/ ~IsSome(trip.direction_id) THEN Panic
            ELSE Ok([id        |-> to_correct_id(tt, trip.id),
                     route     |-> to_correct_id(tt, trip.route_id),
                     calendar  |-> to_correct_id(tt, trip.service_id),
                     name      |-> Unwrap(trip.trip_headsign),
                     direction |-> KdiDirectionEnumFrom(Unwrap(trip.direction_id)),
                     weelchair |-> KdiSupportedEnumFromAvailability(trip.wheelchair_accessible),
                     bike      |-> KdiSupportedEnumFromBikesAllowedType(trip.bikes_allowed)])
    IN  Sorted(Loop(acc, feed.trips, Step), IdCmp)

align_route(feed, acc, tt) ==
    LET Step(route, i) ==
            IF ~IsSome(route.agency_id) \/ KdiTransportEnumFrom(route.route_type) = None
            THEN Panic
            ELSE Ok([id         |-> to_correct_id(tt, route.id),
                     agency     |-> Unwrap(route.agency_id),
                     short_name |-> route.short_name,
                     long_name  |-> route.long_name,
                     transport  |-> Unwrap(KdiTransportEnumFrom(route.route_type))])
    IN  Sorted(Loop(acc, feed.routes, Step), IdCmp)

(***************************************************************************)
(* kdi/align.rs: fare builders                                             *)
(***************************************************************************)

\* kdi/structs.rs: the serde default of a fare rule's origin and destination.
kdi_fare_rule_default == <<"0", "0", "0", "1">>

\* Deserialization of a fare-rule row into KdiFareRule: a column that the row
\* does not have (None) takes the serde default.
DeserializeFareRule(row) ==
    [fare        |-> row.FARE_ID,
     origin      |-> IF IsSome(row.ORIGIN_ID) THEN Unwrap(row.ORIGIN_ID)
                     ELSE kdi_fare_rule_default,
     destination |-> IF IsSome(row.DESTINATION_ID) THEN Unwrap(row.DESTINATION_ID)
                     ELSE kdi_fare_rule_default]

\* The comparator that breaks ties of fare by origin.
FareCmpThenOrigin(a, b) == ThenWith(StrCmp(a.fare, b.fare), StrCmp(a.origin, b.origin))

FareCmp(a, b) == StrCmp(a.fare, b.fare)

\* The body of each of the three loops of align_fare_rule.
FareRuleStep(tt, row) ==
    IF ~row.valid THEN Err
    ELSE LET fare_rule   == DeserializeFareRule(row)
             fare        == to_correct_id(tt, fare_rule.fare)
             origin      == ZonePrefix(to_correct_id(tt, fare_rule.origin))
             destination == ZonePrefix(to_correct_id(tt, fare_rule.destination))
         IN  Ok([id          |-> fare \o <<"_">> \o origin \o <<"_">> \o destination,
                 fare        |-> fare,
                 origin      |-> origin,
                 destination |-> destination])

align_fare_rule(arch, acc, tt) ==
    LET Step(row, i) == FareRuleStep(tt, row)
        cash         == Loop(acc, arch.fare_rules[1], Step)
        cartascalare == IF cash.res = "Ok" THEN Loop(cash.acc, arch.fare_rules[2], Step)
                        ELSE cash
        mobile       == IF cartascalare.res = "Ok"
                        THEN Loop(cartascalare.acc, arch.fare_rules[3], Step)
                        ELSE cartascalare
    IN  Sorted(mobile, FareCmp)

\* The loop body that keeps the ftype the row was deserialized with
\* (skip_deserializing leaves KdiFareEnum::default()).
FareStepKeepingType(tt, ftype, row) ==
    IF ~row.valid THEN Err
    ELSE Ok([id       |-> to_correct_id(tt, row.id),
             ftype    |-> "Cash",
             price    |-> row.price,
             currency |-> row.currency,
             payment  |-> row.payment,
             duration |-> row.duration])

\* The body of each of the three loops of align_fare: KdiFare { id, ftype, ..fare }.
FareStep(tt, ftype, row) ==
    IF ~row.valid THEN Err
    ELSE Ok([id       |-> to_correct_id(tt, row.id),
             ftype    |-> ftype,
             price    |-> row.price,
             currency |-> row.currency,
             payment  |-> row.payment,
             duration |-> row.duration])

\* align_fare starting from an empty collection instead of the caller's.
align_fare_replacing(arch, acc, tt) ==
    LET Cash(row, i)         == FareStep(tt, "Cash", row)
        Cartascalare(row, i) == FareStep(tt, "Cartascalare", row)
        Mobile(row, i)       == FareStep(tt, "Mobile", row)
        cash         == Loop(<<>>, arch.fare_attributes[1], Cash)
        cartascalare == IF cash.res = "Ok"
                        THEN Loop(cash.acc, arch.fare_attributes[2], Cartascalare)
                        ELSE cash
        mobile       == IF cartascalare.res = "Ok"
                        THEN Loop(cartascalare.acc, arch.fare_attributes[3], Mobile)
                        ELSE cartascalare
    IN  Sorted(mobile, IdCmp)

align_fare(arch, acc, tt) ==
    LET Cash(row, i)         == FareStep(tt, "Cash", row)
        Cartascalare(row, i) == FareStep(tt, "Cartascalare", row)
        Mobile(row, i)       == FareStep(tt, "Mobile", row)
        cash         == Loop(acc, arch.fare_attributes[1], Cash)
        cartascalare == IF cash.res = "Ok"
                        THEN Loop(cash.acc, arch.fare_attributes[2], Cartascalare)
                        ELSE cash
        mobile       == IF cartascalare.res = "Ok"
                        THEN Loop(cartascalare.acc, arch.fare_attributes[3], Mobile)
                        ELSE cartascalare
    IN  Sorted(mobile, IdCmp)

(***************************************************************************)
(* kdi/align.rs: parking-stop and bike-sharing-stop builders               *)
(***************************************************************************)

\* The parking-stop body with the location numbered from one.
KmlParkingStopOneBased(prefix, ptype, address_field, slots_field, placemark, i) ==
    LET datas   == placemark.simple_datas
        address == Find(datas, 1, address_field)
        slots   == IF address = 0 THEN 0 ELSE Find(datas, address + 1, slots_field)
    IN  IF address = 0 \/ slots = 0 THEN Panic
        ELSE IF ParseUsize(datas[slots].value) = None THEN Err
        ELSE Ok([id          |-> prefix \o <<"_">> \o to_string(i - 1),
                 location    |-> prefix \o <<"_">> \o to_string(i),
                 ptype       |-> ptype,
                 address     |-> datas[address].value,
                 total_slots |-> Unwrap(ParseUsize(datas[slots].value))])

\* The body shared by the parking-stop builders that read two fields: both
\* finds run on the one iterator `datas`, the second from where the first
\* stopped.  A find that runs out panics on unwrap; a slot count that does not
\* parse returns Err.
KmlParkingStop(prefix, ptype, address_field, slots_field, placemark, i) ==
    LET datas   == placemark.simple_datas
        address == Find(datas, 1, address_field)
        slots   == IF address = 0 THEN 0 ELSE Find(datas, address + 1, slots_field)
    IN  IF address = 0 \/ slots = 0 THEN Panic
        ELSE IF ParseUsize(datas[slots].value) = None THEN Err
        ELSE Ok([id          |-> prefix \o <<"_">> \o to_string(i - 1),
                 location    |-> prefix \o <<"_">> \o to_string(i - 1),
                 ptype       |-> ptype,
                 address     |-> datas[address].value,
                 total_slots |-> Unwrap(ParseUsize(datas[slots].value))])

align_parking_stop_car_sharing(car_sharing, acc) ==
    LET Step(placemark, i) ==
            KmlParkingStop(<<"C", "S">>, "CarSharing", "via", "auto", placemark, i)
    IN  Sorted(Loop(acc, car_sharing, Step), LocationCmp)

align_parking_stop_centro_in_bici(centro_in_bici, acc) ==
    LET Step(placemark, i) ==
            KmlParkingStop(<<"C", "I", "B">>, "BikeSharing", "desc", "cicloposteggi",
                           placemark, i)
    IN  Sorted(Loop(acc, centro_in_bici, Step), LocationCmp)

align_parking_stop_parcheggio_protetto_biciclette(parcheggio_protetto_biciclette, acc) ==
    LET Step(placemark, i) ==
            KmlParkingStop(<<"P", "P", "B">>, "BikeParking", "via", "posti", placemark, i)
    IN  Sorted(Loop(acc, parcheggio_protetto_biciclette, Step), LocationCmp)

align_parking_stop_taxi(taxi, acc) ==
    LET Step(placemark, i) ==
            LET datas   == placemark.simple_datas
                address == Find(datas, 1, "indirizzo")
            IN  IF address = 0 THEN Panic
                ELSE Ok([id          |-> <<"T", "X", "_">> \o to_string(i - 1),
                         location    |-> <<"T", "X", "_">> \o to_string(i - 1),
                         ptype       |-> "Taxi",
                         address     |-> datas[address].value,
                         total_slots |-> 1])
    IN  Sorted(Loop(acc, taxi, Step), LocationCmp)

\* No sort ends this builder.
align_bike_sharing_stop(bs_feed, acc) ==
    LET Step(bs, i) ==
            IF Len(bs.position) # 2 THEN Panic
            ELSE Ok([id          |-> <<"B", "S", "_">> \o bs.id,
                     location    |-> <<"B", "S", "_">> \o bs.id,
                     ptype       |-> "BikeSharing",
                     address     |-> bs.address,
                     total_slots |-> bs.total_slots,
                     free_slots  |-> bs.slots,
                     bikes       |-> bs.bikes])
        r == Loop(acc, bs_feed, Step)
    IN  [res |-> r.res, acc |-> r.acc]

(***************************************************************************)
(* main.rs: the builders main drives                                       *)
(***************************************************************************)

align_stops(feed, acc, tt) ==
    LET Step(stop, i) ==
            IF ~IsSome(stop.latitude) \/ ~IsSome(stop.longitude) THEN Panic
            ELSE Ok([id        |-> to_correct_id(tt, stop.id),
                     zone_id   |-> IF IsSome(stop.zone_id)
                                   THEN Some(ZonePrefix(to_correct_id(tt, Unwrap(stop.zone_id))))
                                   ELSE None,
                     name      |-> stop.name,
                     latitude  |-> Unwrap(stop.latitude),
                     longitude |-> Unwrap(stop.longitude),
                     stype     |-> "Generic",
                     weelchair |-> KdiSupportedEnumFromAvailability(stop.wheelchair_boarding)])
    IN  Sorted(Loop(acc, feed.stops, Step), IdCmp)

align_routes(feed, acc, tt) ==
    LET Step(route, i) ==
            IF ~IsSome(route.agency_id) \/ KdiTransportEnumFrom(route.route_type) = None
            THEN Panic
            ELSE Ok([id         |-> to_correct_id(tt, route.id),
                     agency_id  |-> Unwrap(route.agency_id),
                     short_name |-> route.short_name,
                     long_name  |-> route.long_name,
                     transport  |-> Unwrap(KdiTransportEnumFrom(route.route_type))])
    IN  Sorted(Loop(acc, feed.routes, Step), IdCmp)

\* main.rs's align_calendar builds what kdi/align.rs's align_calendar builds.
main_align_calendar(feed, acc, tt) == align_calendar(feed, acc, tt)

align_calendar_dates(feed, acc, tt) ==
    LET cds == Flatten([k \in 1..Len(feed.calendar_dates) |-> feed.calendar_dates[k].dates])
        Step(cd, i) ==
            Ok([calendar_id |-> to_correct_id(tt, cd.service_id),
                date        |-> FormatDateTime(cd.date, 0),
                exception   |-> KdiExceptionEnumFrom(cd.exception_type)])
        Cmp(a, b) == ThenWith(StrCmp(a.calendar_id, b.calendar_id), StrCmp(a.date, b.date))
    IN  Sorted(Loop(acc, cds, Step), Cmp)

align_trips(feed, acc, tt) ==
    LET Step(trip, i) ==
            IF ~IsSome(trip.trip_headsign) \/ ~IsSome(trip.direction_id) THEN Panic
            ELSE Ok([id          |-> to_correct_id(tt, trip.id),
                     route_id    |-> to_correct_id(tt, trip.route_id),
                     calendar_id |-> to_correct_id(tt, trip.service_id),
                     name        |-> Unwrap(trip.trip_headsign),
                     direction   |-> KdiDirectionEnumFrom(Unwrap(trip.direction_id)),
                     weelchair   |-> KdiSupportedEnumFromAvailability(trip.wheelchair_accessible),
                     bike        |-> KdiSupportedEnumFromBikesAllowedType(trip.bikes_allowed)])
    IN  Sorted(Loop(acc, feed.trips, Step), IdCmp)

align_stop_times(feed, acc, tt) ==
    LET sts == Flatten([k \in 1..Len(feed.trips) |->
                   [j \in 1..Len(feed.trips[k].stop_times) |->
                       [trip |-> feed.trips[k], stop_time |-> feed.trips[k].stop_times[j]]]])
        Bad(t) == IsSome(t) /\ StopTimeStamp(Unwrap(t)) = None
        Step(x, i) ==
            IF Bad(x.stop_time.arrival_time) \/ Bad(x.stop_time.departure_time) THEN Panic
            ELSE Ok([trip_id   |-> to_correct_id(tt, x.trip.id),
                     stop_id   |-> to_correct_id(tt, x.stop_time.stop.id),
                     arrival   |-> MapStamp(x.stop_time.arrival_time),
                     departure |-> MapStamp(x.stop_time.departure_time),
                     sequence  |-> x.stop_time.stop_sequence])
        Cmp(a, b) == ThenWith(StrCmp(a.trip_id, b.trip_id), NumCmp(a.sequence, b.sequence))
    IN  Sorted(Loop(acc, sts, Step), Cmp)

align_zones(arch, acc, tt) ==
    LET Step(zone, i) ==
            IF ~zone.valid THEN Err
            ELSE Ok([id        |-> ZonePrefix(to_correct_id(tt, zone.id)),
                     name      |-> zone.name,
                     latitude  |-> zone.latitude,
                     longitude |-> zone.longitude])
    IN  Sorted(Loop(acc, arch.zones, Step), IdCmp)

\* The three loops of align_fare_attributes: fare.id and fare.ftype are
\* overwritten, the other fields stay as deserialized.
align_fare_attributes(arch, acc, tt) ==
    LET Cash(row, i)         == FareStep(tt, "Cash", row)
        Cartascalare(row, i) == FareStep(tt, "Cartascalare", row)
        Mobile(row, i)       == FareStep(tt, "Mobile", row)
        cash         == Loop(acc, arch.fare_attributes[1], Cash)
        cartascalare == IF cash.res = "Ok"
                        THEN Loop(cash.acc, arch.fare_attributes[2], Cartascalare)
                        ELSE cash
        mobile       == IF cartascalare.res = "Ok"
                        THEN Loop(cartascalare.acc, arch.fare_attributes[3], Mobile)
                        ELSE cartascalare
    IN  Sorted(mobile, IdCmp)

\* Deserialization of a cell into Option<String> (kdigtfs.rs KdiFareRule): a
\* missing column and an empty cell both give None.
OptionCell(cell) == IF IsSome(cell) /\ Unwrap(cell) # <<>> THEN cell ELSE None

\* The three loops of align_fare_rules: an origin or destination that is None
\* stays None.
align_fare_rules(arch, acc, tt) ==
    LET Zoned(cell) == IF IsSome(OptionCell(cell))
                       THEN Some(ZonePrefix(to_correct_id(tt, Unwrap(cell))))
                       ELSE None
        Step(row, i) ==
            IF ~row.valid THEN Err
            ELSE Ok([fare_id        |-> to_correct_id(tt, row.FARE_ID),
                     origin_id      |-> Zoned(row.ORIGIN_ID),
                     destination_id |-> Zoned(row.DESTINATION_ID)])
        cash         == Loop(acc, arch.fare_rules[1], Step)
        cartascalare == IF cash.res = "Ok" THEN Loop(cash.acc, arch.fare_rules[2], Step)
                        ELSE cash
        mobile       == IF cartascalare.res = "Ok"
                        THEN Loop(cartascalare.acc, arch.fare_rules[3], Step)
                        ELSE cartascalare
        Cmp(a, b) == StrCmp(a.fare_id, b.fare_id)
    IN  Sorted(mobile, Cmp)

(***************************************************************************)
(* Input domains                                                           *)
(***************************************************************************)

NumRawIds == 2
MaxRecs == 2
MaxRows == 2
MaxPlacemarks == 2
MaxBikes == 2

\* Raw ids as the sources spell them; the first NumRawIds are in play.
RawIdPool == << <<"1", "2">>, <<"1">>, <<"2">>, <<"0", "1">> >>
RawIds == {RawIdPool[i] : i \in 1..NumRawIds}

\* Raw zone ids: the raw ids and the sentinel of the fare rules.
ZoneIds == RawIds \cup {kdi_fare_rule_default}

Tiers == [Urban |-> Urban, ExtraUrban |-> ExtraUrban]

\* gtfs_structures::Stop
Stop(id, zone_id) ==
    [id |-> id, name |-> id, latitude |-> Some(4607), longitude |-> Some(1112),
     zone_id |-> zone_id, wheelchair_boarding |-> "Available"]

\* gtfs_structures::Route
Route(id) ==
    [id |-> id, agency_id |-> Some(<<"1", "2">>), short_name |-> id, long_name |-> id,
     route_type |-> "Bus"]

\* gtfs_structures::RouteType, and the variants KdiTransportEnum has a value for.
RouteTypes ==
    {"Tramway", "Subway", "Rail", "Bus", "Ferry", "CableCar", "Gondola", "Funicular",
     "Coach", "Air", "Taxi", "Other"}
SupportedRouteTypes == {"Rail", "Bus", "CableCar"}

RouteTyped(id, route_type) == [Route(id) EXCEPT !.route_type = route_type]

\* The routes maps that vary the route type: one route of any type, or a
\* supported route followed by a route of any type.
TypedRoutes ==
    {<<RouteTyped(RawIdPool[1], a)>> : a \in RouteTypes}
    \cup {<<RouteTyped(RawIdPool[1], a), RouteTyped(RawIdPool[2], b)>> :
              a \in SupportedRouteTypes, b \in RouteTypes}

\* gtfs_structures::Calendar
Calendar(id) ==
    [id |-> id,
     start_date |-> [year |-> 2021, month |-> 1, day |-> 1],
     end_date   |-> [year |-> 2021, month |-> 12, day |-> 31],
     monday |-> TRUE, tuesday |-> TRUE, wednesday |-> TRUE, thursday |-> TRUE,
     friday |-> TRUE, saturday |-> FALSE, sunday |-> FALSE]

\* gtfs_structures::CalendarDate
CalendarDate(service_id, month, day, exception_type) ==
    [service_id |-> service_id, date |-> [year |-> 2021, month |-> month, day |-> day],
     exception_type |-> exception_type]

\* One entry of Gtfs::calendar_dates: a service id and its exceptions.  The first
\* raw id carries two exceptions, later date first; the others carry one.
CalendarDates(service_id) ==
    [service_id |-> service_id,
     dates |-> IF service_id = RawIdPool[1]
               THEN <<CalendarDate(service_id, 12, 25, "Deleted"),
                      CalendarDate(service_id, 1, 6, "Added")>>
               ELSE <<CalendarDate(service_id, 8, 15, "Deleted")>>]

\* gtfs_structures::Trip without its stop times: id, route and service.
TripRefs == {[id |-> id, route_id |-> r, service_id |-> x] :
                id \in RawIds, r \in {RawIdPool[1], RawIdPool[2]},
                x \in {RawIdPool[1], RawIdPool[2]}}

\* The stop times of every trip of a feed: the feed's stops in their order, one
\* hour apart (gtfs_structures resolves StopTime::stop against Gtfs::stops).
StopTimes(stops) ==
    [j \in 1..Len(stops) |->
        [stop |-> stops[j], stop_sequence |-> j,
         arrival_time |-> Some(3600 * j), departure_time |-> None]]

Trip(ref, stops) ==
    [id |-> ref.id, route_id |-> ref.route_id, service_id |-> ref.service_id,
     trip_headsign |-> Some(ref.id), direction_id |-> Some("Outbound"),
     wheelchair_accessible |-> "Available", bikes_allowed |-> "NoBikesAllowed",
     stop_times |-> StopTimes(stops)]

\* gtfs_structures::Availability, BikesAllowedType, DirectionType and Exception.
Availabilities == {"InformationNotAvailable", "Available", "NotAvailable", "Unknown"}
BikesAllowedTypes == {"NoBikeInformation", "AtLeastOneBike", "NoBikesAllowed", "Unknown"}
DirectionTypes == {"Outbound", "Inbound"}
Exceptions == {"Added", "Deleted"}

\* A parsed feed: each map as the sequence its iteration yields.
Feed(stop_seq, route_seq, calendar_seq, calendar_date_seq, trip_refs) ==
    [stops          |-> stop_seq,
     routes         |-> route_seq,
     calendar       |-> calendar_seq,
     calendar_dates |-> calendar_date_seq,
     trips          |-> [k \in 1..Len(trip_refs) |-> Trip(trip_refs[k], stop_seq)]]

\* Iteration orders of a map keyed by id: no key twice.
KeyedSeqs(S, n) == {q \in SeqsUpTo(S, n) : \A i, j \in 1..Len(q) : i # j => q[i].id # q[j].id}

Stops == {Stop(id, z) : id \in RawIds, z \in {None, Some(RawIdPool[1])}}

BaseStops == <<Stop(RawIdPool[1], Some(RawIdPool[1])), Stop(RawIdPool[2], None)>>
BaseRoutes == <<Route(RawIdPool[1])>>
BaseCalendar == <<Calendar(RawIdPool[1])>>
BaseCalendarDates == <<CalendarDates(RawIdPool[1]), CalendarDates(RawIdPool[2])>>
BaseTripRefs == <<[id |-> RawIdPool[1], route_id |-> RawIdPool[1], service_id |-> RawIdPool[1]]>>
BaseFeed == Feed(BaseStops, BaseRoutes, BaseCalendar, BaseCalendarDates, BaseTripRefs)

\* The feeds that vary the vocabulary values of the stops and of the trip.
VocabularyFeeds ==
    {Feed([k \in 1..Len(BaseStops) |-> [BaseStops[k] EXCEPT !.wheelchair_boarding = a]],
          BaseRoutes, BaseCalendar, BaseCalendarDates, BaseTripRefs) : a \in Availabilities}
    \cup {[BaseFeed EXCEPT !.trips =
               <<[Trip(BaseTripRefs[1], BaseStops) EXCEPT
                     !.direction_id = Some(d), !.wheelchair_accessible = a,
                     !.bikes_allowed = b]>>] :
              d \in DirectionTypes, a \in Availabilities, b \in BikesAllowedTypes}

\* The arrival and departure values of a stop time: absent, within the first
\* day, past midnight, and at the end of the epoch month and past it.
StopTimeValues ==
    {None} \cup {Some(time) : time \in {0, SecondsPerDay - 1, SecondsPerDay, 90000,
                                        31 * SecondsPerDay - 1, 31 * SecondsPerDay}}

\* The feeds that vary the first stop time of the trip.
TimedFeeds ==
    {[BaseFeed EXCEPT !.trips[1].stop_times[1].arrival_time = a,
                      !.trips[1].stop_times[1].departure_time = d] :
        a \in StopTimeValues, d \in StopTimeValues}

\* The feeds of one tier: one map at a time differs from the base feed.
Feeds ==
    VocabularyFeeds \cup TimedFeeds \cup
    {Feed(q, BaseRoutes, BaseCalendar, BaseCalendarDates, BaseTripRefs) :
        q \in KeyedSeqs(Stops, MaxRecs)}
    \cup {Feed(BaseStops, [k \in 1..Len(q) |-> Route(q[k])], BaseCalendar,
               BaseCalendarDates, BaseTripRefs) : q \in SeqsNoDup(RawIds, MaxRecs)}
    \cup {Feed(BaseStops, q, BaseCalendar, BaseCalendarDates, BaseTripRefs) : q \in TypedRoutes}
    \cup {Feed(BaseStops, BaseRoutes, [k \in 1..Len(q) |-> Calendar(q[k])],
               BaseCalendarDates, BaseTripRefs) : q \in SeqsNoDup(RawIds, MaxRecs)}
    \cup {Feed(BaseStops, BaseRoutes, BaseCalendar,
               [k \in 1..Len(q) |-> CalendarDates(q[k])], BaseTripRefs) :
               q \in SeqsNoDup(RawIds, MaxRecs)}
    \cup {Feed(BaseStops, BaseRoutes, BaseCalendar, BaseCalendarDates, q) :
               q \in KeyedSeqs(TripRefs, MaxRecs)}

\* A row of zones.txt, deserialized (KdiZone).
Zone(id) == [valid |-> TRUE, id |-> id, name |-> id, latitude |-> 4607, longitude |-> 1112]

\* A row of a fare_attributes table, deserialized (KdiFare).
FareRow(id) ==
    [valid |-> TRUE, id |-> id, price |-> 150, currency |-> "EUR", payment |-> "OnBoard",
     duration |-> 70]

\* A row of a fare_rules table: the cells of its columns, None for a column the
\* table does not have.
FareRuleRow(fare, origin, destination) ==
    [valid |-> TRUE, FARE_ID |-> fare, ORIGIN_ID |-> origin, DESTINATION_ID |-> destination]

FareRuleRows ==
    {FareRuleRow(RawIdPool[1], None, Some(RawIdPool[1])),
     FareRuleRow(RawIdPool[1], Some(RawIdPool[1]), None),
     FareRuleRow(RawIdPool[2], Some(RawIdPool[1]), Some(RawIdPool[2])),
     FareRuleRow(RawIdPool[1], Some(RawIdPool[2]), Some(RawIdPool[1]))}

FareRows == {FareRow(RawIdPool[1]), FareRow(RawIdPool[2])}

BaseZones == <<Zone(RawIdPool[1]), Zone(kdi_fare_rule_default)>>
BaseFareTable == <<FareRow(RawIdPool[1])>>
BaseFareRuleTable == <<FareRuleRow(RawIdPool[1], None, Some(RawIdPool[1]))>>
BaseFares == <<BaseFareTable, BaseFareTable, BaseFareTable>>
BaseFareRules == <<BaseFareRuleTable, BaseFareRuleTable, BaseFareRuleTable>>

Archive(zones, fare_attributes, rules) ==
    [zones |-> zones, fare_attributes |-> fare_attributes, fare_rules |-> rules]

BaseArchive == Archive(BaseZones, BaseFares, BaseFareRules)

\* The fare archives of one tier: one table at a time differs from the base.
Archives ==
    {Archive([k \in 1..Len(q) |-> Zone(q[k])], BaseFares, BaseFareRules) :
        q \in SeqsUpTo(ZoneIds, MaxRows)}
    \cup {Archive(BaseZones, [BaseFares EXCEPT ![t] = q], BaseFareRules) :
        t \in 1..3, q \in SeqsUpTo(FareRows, MaxRows)}
    \cup {Archive(BaseZones, BaseFares, [BaseFareRules EXCEPT ![t] = q]) :
        t \in 1..3, q \in SeqsUpTo(FareRuleRows, MaxRows)}

\* Fare archives with one row that does not deserialize.
BadArchives ==
    {[BaseArchive EXCEPT !.zones[1].valid = FALSE],
     [BaseArchive EXCEPT !.fare_attributes[2][1].valid = FALSE],
     [BaseArchive EXCEPT !.fare_rules[3][1].valid = FALSE]}

\* kml::SimpleData
SimpleData(name, value) == [name |-> name, value |-> value]

\* kml::Placemark: "11.12,46.07" and the fields the builders of its feed read.
Coordinates == <<"1", "1", ".", "1", "2", ",", "4", "6", ".", "0", "7">>

Placemark(datas) == [coordinates |-> Coordinates, simple_datas |-> datas]

CarSharingPlacemark ==
    Placemark(<<SimpleData("nomepos", <<"P">>), SimpleData("via", <<"S">>),
                SimpleData("auto", <<"2">>)>>)

CentroInBiciPlacemark ==
    Placemark(<<SimpleData("desc", <<"C">>), SimpleData("cicloposteggi", <<"1", "0">>)>>)

ParcheggioProtettoBiciclettePlacemark ==
    Placemark(<<SimpleData("park", <<"P">>), SimpleData("via", <<"S">>),
                SimpleData("posti", <<"8">>)>>)

TaxiPlacemark ==
    Placemark(<<SimpleData("nome", <<"T">>), SimpleData("indirizzo", <<"S">>)>>)

Kml(cs, cib, ppb, tx) ==
    [car_sharing |-> cs, centro_in_bici |-> cib,
     parcheggio_protetto_biciclette |-> ppb, taxi |-> tx]

BaseKml == Kml(<<CarSharingPlacemark>>, <<CentroInBiciPlacemark>>,
               <<ParcheggioProtettoBiciclettePlacemark>>, <<TaxiPlacemark>>)

\* Coordinate strings of two numeric components: "11.12,46.07", "46.07,11.12"
\* and "7,8.5".
CoordinateStrings ==
    {Coordinates,
     <<"4", "6", ".", "0", "7", ",", "1", "1", ".", "1", "2">>,
     <<"7", ",", "8", ".", "5">>}

\* Coordinate strings that do not have two components: "7" and "7,8.5,0".
BadCoordinateStrings == {<<"7">>, <<"7", ",", "8", ".", "5", ",", "0">>}

\* The name/value list d without one of its fields.
DropOne(d) == {[i \in 1..Len(d) - 1 |-> IF i < k THEN d[i] ELSE d[i + 1]] : k \in 1..Len(d)}

\* The placemarks that differ from p in one respect: the coordinates, the
\* order of the fields, or one field missing.
PlacemarkVariants(p) ==
    {[p EXCEPT !.coordinates = c] : c \in BadCoordinateStrings}
    \cup {[p EXCEPT !.simple_datas = q] :
              q \in {r \in [1..Len(p.simple_datas) -> Range(p.simple_datas)] :
                         Range(r) = Range(p.simple_datas)}}
    \cup {[p EXCEPT !.simple_datas = q] : q \in DropOne(p.simple_datas)}

KmlFields == {"car_sharing", "centro_in_bici", "parcheggio_protetto_biciclette", "taxi"}

\* The KML feeds: one feed at a time differs from the base.
Kmls ==
    UNION {{[BaseKml EXCEPT ![f] = <<BaseKml[f][1], v>>] :
                v \in PlacemarkVariants(BaseKml[f][1])} : f \in KmlFields}
    \cup
    {[BaseKml EXCEPT !.car_sharing = <<[CarSharingPlacemark EXCEPT !.coordinates = c]>>] :
        c \in CoordinateStrings}
    \cup {[BaseKml EXCEPT !.centro_in_bici =
               <<[CentroInBiciPlacemark EXCEPT !.coordinates = c]>>] : c \in CoordinateStrings}
    \cup {[BaseKml EXCEPT !.parcheggio_protetto_biciclette =
               <<ParcheggioProtettoBiciclettePlacemark,
                 [ParcheggioProtettoBiciclettePlacemark EXCEPT !.coordinates = c]>>] :
               c \in CoordinateStrings}
    \cup {[BaseKml EXCEPT !.taxi = <<[TaxiPlacemark EXCEPT !.coordinates = c]>>] :
               c \in CoordinateStrings}
    \cup
    {[BaseKml EXCEPT !.car_sharing = q] :
        q \in SeqsUpTo({CarSharingPlacemark}, MaxPlacemarks)}
    \cup {[BaseKml EXCEPT !.centro_in_bici = q] :
        q \in SeqsUpTo({CentroInBiciPlacemark}, MaxPlacemarks)}
    \cup {[BaseKml EXCEPT !.parcheggio_protetto_biciclette = q] :
        q \in SeqsUpTo({ParcheggioProtettoBiciclettePlacemark}, MaxPlacemarks)}
    \cup {[BaseKml EXCEPT !.taxi = q] :
        q \in SeqsUpTo({TaxiPlacemark}, MaxPlacemarks)}

\* json::BikeSharing
BikeSharing(id) ==
    [id |-> id, name |-> id, address |-> <<"S">>, bikes |-> 3, slots |-> 7,
     total_slots |-> 10, position |-> <<4607, 1112>>]

BaseBikeSharing == <<BikeSharing(RawIdPool[1])>>

BikeSharings == SeqsUpTo({BikeSharing(id) : id \in RawIds}, MaxBikes)

(***************************************************************************)
(* Specification of the kdi pipeline                                       *)
(***************************************************************************)

NsIdle == ns_in = <<>> /\ ns_out = <<>>

\* gtfs_structures::Agency: the fields main reads.
Agency(id, name, phone) ==
    [id |-> id, name |-> name, phone |-> phone, url |-> <<"U">>]

BaseAgencies == <<Agency(Some(RawIdPool[1]), <<"T">>, Some(<<"0">>))>>

\* The locals of main before its first builder call.
EmptyMem ==
    [agency |-> None, stops |-> <<>>, stop_times |-> <<>>, routes |-> <<>>,
     calendars |-> <<>>, calendars_exception |-> <<>>, trips |-> <<>>, zones |-> <<>>,
     fares |-> <<>>, fare_rules |-> <<>>]

\* main.rs's main is not running.
MainIdle == agencies = [t \in TT |-> BaseAgencies] /\ mem = EmptyMem /\ files = <<>>

Empty ==
    /\ locations = <<>> /\ calendar_exceptions = <<>> /\ calendars = <<>>
    /\ fare_rules = <<>> /\ parking_stops = <<>> /\ fares = <<>>
    /\ bike_sharing_stops = <<>> /\ public_transport_stops = <<>>
    /\ stop_times = <<>> /\ trips = <<>> /\ routes = <<>>

\* The sources as read at startup: one source family at a time ranges over its
\* domain, the others hold their base value.
Sources ==
    \/ /\ \E tt \in TT, f \in Feeds : gtfs = [t \in TT |-> IF t = tt THEN f ELSE BaseFeed]
       /\ archive = [t \in TT |-> BaseArchive]
       /\ kml = BaseKml
       /\ bike_sharing = BaseBikeSharing
    \/ /\ gtfs = [t \in TT |-> BaseFeed]
       /\ \E tt \in TT, a \in Archives \cup BadArchives :
              archive = [t \in TT |-> IF t = tt THEN a ELSE BaseArchive]
       /\ kml = BaseKml
       /\ bike_sharing = BaseBikeSharing
    \/ /\ gtfs = [t \in TT |-> BaseFeed]
       /\ archive = [t \in TT |-> BaseArchive]
       /\ kml \in Kmls
       /\ bike_sharing = BaseBikeSharing
    \/ /\ gtfs = [t \in TT |-> BaseFeed]
       /\ archive = [t \in TT |-> BaseArchive]
       /\ kml = BaseKml
       /\ bike_sharing \in BikeSharings

Init ==
    /\ NsIdle
    /\ Sources
    /\ first \in TT
    /\ pc = 1
    /\ status = "running"
    /\ Empty
    /\ MainIdle

(***************************************************************************)
(* Model assembler over the kdi/align.rs builders                          *)
(***************************************************************************)

Other(tt) == IF tt = Urban THEN ExtraUrban ELSE Urban

\* A builder run once per tier, the tier f before the other one.
PerTier(fn, f) == <<[fn |-> fn, tt |-> f], [fn |-> fn, tt |-> Other(f)]>>

\* A builder of a points-of-interest feed, which has no tier.
Once(fn) == <<[fn |-> fn, tt |-> Urban]>>

\* The builder calls of one run that takes the tier f first, in order.
ScheduleFor(f) ==
    PerTier("align_location_zone", f) \o
    PerTier("align_location_public_transport_stop", f) \o
    Once("align_location_car_sharing") \o
    Once("align_location_centro_in_bici") \o
    Once("align_location_parcheggio_protetto_biciclette") \o
    Once("align_location_taxi") \o
    Once("align_location_bike_sharing") \o
    PerTier("align_calendar_exception", f) \o
    PerTier("align_calendar", f) \o
    PerTier("align_fare_rule", f) \o
    Once("align_parking_stop_car_sharing") \o
    Once("align_parking_stop_centro_in_bici") \o
    Once("align_parking_stop_parcheggio_protetto_biciclette") \o
    Once("align_parking_stop_taxi") \o
    PerTier("align_fare", f) \o
    Once("align_bike_sharing_stop") \o
    PerTier("align_public_transport_stop", f) \o
    PerTier("align_stop_time", f) \o
    PerTier("align_trip", f) \o
    PerTier("align_route", f)

Schedules == [f \in TT |-> ScheduleFor(f)]

\* The builder calls of this run.
Schedule == Schedules[first]

inputs == <<ns_in, ns_out, gtfs, archive, kml, bike_sharing, first>>

\* The state of main.rs's main, which the builders of kdi/align.rs leave alone.
main_vars == <<agencies, mem, files>>

\* The call the assembler makes next.
Calling(fn) == status = "running" /\ pc <= Len(Schedule) /\ Schedule[pc].fn = fn

\* A builder returned res: an Err ends main through `?`, a panic ends the process.
Return(res) ==
    /\ pc' = pc + 1
    /\ status' = IF res # "Ok" THEN "aborted"
                 ELSE IF pc = Len(Schedule) THEN "done" ELSE "running"

AlignLocationZone ==
    /\ Calling("align_location_zone")
    /\ LET r == align_location_zone(archive[Schedule[pc].tt], locations, Schedule[pc].tt)
       IN  locations' = r.acc /\ Return(r.res)
    /\ UNCHANGED <<inputs, main_vars, calendar_exceptions, calendars, fare_rules, parking_stops, fares,
                   bike_sharing_stops, public_transport_stops, stop_times, trips, routes>>

AlignLocationPublicTransportStop ==
    /\ Calling("align_location_public_transport_stop")
    /\ LET r == align_location_public_transport_stop(gtfs[Schedule[pc].tt], locations, Schedule[pc].tt)
       IN  locations' = r.acc /\ Return(r.res)
    /\ UNCHANGED <<inputs, main_vars, calendar_exceptions, calendars, fare_rules, parking_stops, fares,
                   bike_sharing_stops, public_transport_stops, stop_times, trips, routes>>

AlignLocationCarSharing ==
    /\ Calling("align_location_car_sharing")
    /\ LET r == align_location_car_sharing(kml.car_sharing, locations)
       IN  locations' = r.acc /\ Return(r.res)
    /\ UNCHANGED <<inputs, main_vars, calendar_exceptions, calendars, fare_rules, parking_stops, fares,
                   bike_sharing_stops, public_transport_stops, stop_times, trips, routes>>

AlignLocationCentroInBici ==
    /\ Calling("align_location_centro_in_bici")
    /\ LET r == align_location_centro_in_bici(kml.centro_in_bici, locations)
       IN  locations' = r.acc /\ Return(r.res)
    /\ UNCHANGED <<inputs, main_vars, calendar_exceptions, calendars, fare_rules, parking_stops, fares,
                   bike_sharing_stops, public_transport_stops, stop_times, trips, routes>>

AlignLocationParcheggioProtettoBiciclette ==
    /\ Calling("align_location_parcheggio_protetto_biciclette")
    /\ LET r == align_location_parcheggio_protetto_biciclette(kml.parcheggio_protetto_biciclette, locations)
       IN  locations' = r.acc /\ Return(r.res)
    /\ UNCHANGED <<inputs, main_vars, calendar_exceptions, calendars, fare_rules, parking_stops, fares,
                   bike_sharing_stops, public_transport_stops, stop_times, trips, routes>>

AlignLocationTaxi ==
    /\ Calling("align_location_taxi")
    /\ LET r == align_location_taxi(kml.taxi, locations)
       IN  locations' = r.acc /\ Return(r.res)
    /\ UNCHANGED <<inputs, main_vars, calendar_exceptions, calendars, fare_rules, parking_stops, fares,
                   bike_sharing_stops, public_transport_stops, stop_times, trips, routes>>

AlignLocationBikeSharing ==
    /\ Calling("align_location_bike_sharing")
    /\ LET r == align_location_bike_sharing(bike_sharing, locations)
       IN  locations' = r.acc /\ Return(r.res)
    /\ UNCHANGED <<inputs, main_vars, calendar_exceptions, calendars, fare_rules, parking_stops, fares,
                   bike_sharing_stops, public_transport_stops, stop_times, trips, routes>>

AlignCalendarException ==
    /\ Calling("align_calendar_exception")
    /\ LET r == align_calendar_exception(gtfs[Schedule[pc].tt], calendar_exceptions, Schedule[pc].tt)
       IN  calendar_exceptions' = r.acc /\ Return(r.res)
    /\ UNCHANGED <<inputs, main_vars, locations, calendars, fare_rules, parking_stops, fares,
                   bike_sharing_stops, public_transport_stops, stop_times, trips, routes>>

AlignCalendar ==
    /\ Calling("align_calendar")
    /\ LET r == align_calendar(gtfs[Schedule[pc].tt], calendars, Schedule[pc].tt)
       IN  calendars' = r.acc /\ Return(r.res)
    /\ UNCHANGED <<inputs, main_vars, locations, calendar_exceptions, fare_rules, parking_stops, fares,
                   bike_sharing_stops, public_transport_stops, stop_times, trips, routes>>

AlignFareRule ==
    /\ Calling("align_fare_rule")
    /\ LET r == align_fare_rule(archive[Schedule[pc].tt], fare_rules, Schedule[pc].tt)
       IN  fare_rules' = r.acc /\ Return(r.res)
    /\ UNCHANGED <<inputs, main_vars, locations, calendar_exceptions, calendars, parking_stops, fares,
                   bike_sharing_stops, public_transport_stops, stop_times, trips, routes>>

AlignParkingStopCarSharing ==
    /\ Calling("align_parking_stop_car_sharing")
    /\ LET r == align_parking_stop_car_sharing(kml.car_sharing, parking_stops)
       IN  parking_stops' = r.acc /\ Return(r.res)
    /\ UNCHANGED <<inputs, main_vars, locations, calendar_exceptions, calendars, fare_rules, fares,
                   bike_sharing_stops, public_transport_stops, stop_times, trips, routes>>

AlignParkingStopCentroInBici ==
    /\ Calling("align_parking_stop_centro_in_bici")
    /\ LET r == align_parking_stop_centro_in_bici(kml.centro_in_bici, parking_stops)
       IN  parking_stops' = r.acc /\ Return(r.res)
    /\ UNCHANGED <<inputs, main_vars, locations, calendar_exceptions, calendars, fare_rules, fares,
                   bike_sharing_stops, public_transport_stops, stop_times, trips, routes>>

AlignParkingStopParcheggioProtettoBiciclette ==
    /\ Calling("align_parking_stop_parcheggio_protetto_biciclette")
    /\ LET r == align_parking_stop_parcheggio_protetto_biciclette(kml.parcheggio_protetto_biciclette, parking_stops)
       IN  parking_stops' = r.acc /\ Return(r.res)
    /\ UNCHANGED <<inputs, main_vars, locations, calendar_exceptions, calendars, fare_rules, fares,
                   bike_sharing_stops, public_transport_stops, stop_times, trips, routes>>

AlignParkingStopTaxi ==
    /\ Calling("align_parking_stop_taxi")
    /\ LET r == align_parking_stop_taxi(kml.taxi, parking_stops)
       IN  parking_stops' = r.acc /\ Return(r.res)
    /\ UNCHANGED <<inputs, main_vars, locations, calendar_exceptions, calendars, fare_rules, fares,
                   bike_sharing_stops, public_transport_stops, stop_times, trips, routes>>

AlignFare ==
    /\ Calling("align_fare")
    /\ LET r == align_fare(archive[Schedule[pc].tt], fares, Schedule[pc].tt)
       IN  fares' = r.acc /\ Return(r.res)
    /\ UNCHANGED <<inputs, main_vars, locations, calendar_exceptions, calendars, fare_rules, parking_stops,
                   bike_sharing_stops, public_transport_stops, stop_times, trips, routes>>

AlignBikeSharingStop ==
    /\ Calling("align_bike_sharing_stop")
    /\ LET r == align_bike_sharing_stop(bike_sharing, bike_sharing_stops)
       IN  bike_sharing_stops' = r.acc /\ Return(r.res)
    /\ UNCHANGED <<inputs, main_vars, locations, calendar_exceptions, calendars, fare_rules, parking_stops,
                   fares, public_transport_stops, stop_times, trips, routes>>

AlignPublicTransportStop ==
    /\ Calling("align_public_transport_stop")
    /\ LET r == align_public_transport_stop(gtfs[Schedule[pc].tt], public_transport_stops, Schedule[pc].tt)
       IN  public_transport_stops' = r.acc /\ Return(r.res)
    /\ UNCHANGED <<inputs, main_vars, locations, calendar_exceptions, calendars, fare_rules, parking_stops,
                   fares, bike_sharing_stops, stop_times, trips, routes>>

AlignStopTime ==
    /\ Calling("align_stop_time")
    /\ LET r == align_stop_time(gtfs[Schedule[pc].tt], stop_times, Schedule[pc].tt)
       IN  stop_times' = r.acc /\ Return(r.res)
    /\ UNCHANGED <<inputs, main_vars, locations, calendar_exceptions, calendars, fare_rules, parking_stops,
                   fares, bike_sharing_stops, public_transport_stops, trips, routes>>

AlignTrip ==
    /\ Calling("align_trip")
    /\ LET r == align_trip(gtfs[Schedule[pc].tt], trips, Schedule[pc].tt)
       IN  trips' = r.acc /\ Return(r.res)
    /\ UNCHANGED <<inputs, main_vars, locations, calendar_exceptions, calendars, fare_rules, parking_stops,
                   fares, bike_sharing_stops, public_transport_stops, stop_times, routes>>

AlignRoute ==
    /\ Calling("align_route")
    /\ LET r == align_route(gtfs[Schedule[pc].tt], routes, Schedule[pc].tt)
       IN  routes' = r.acc /\ Return(r.res)
    /\ UNCHANGED <<inputs, main_vars, locations, calendar_exceptions, calendars, fare_rules, parking_stops,
                   fares, bike_sharing_stops, public_transport_stops, stop_times, trips>>

Next ==
    \/ AlignLocationZone
    \/ AlignLocationPublicTransportStop
    \/ AlignLocationCarSharing
    \/ AlignLocationCentroInBici
    \/ AlignLocationParcheggioProtettoBiciclette
    \/ AlignLocationTaxi
    \/ AlignLocationBikeSharing
    \/ AlignCalendarException
    \/ AlignCalendar
    \/ AlignFareRule
    \/ AlignParkingStopCarSharing
    \/ AlignParkingStopCentroInBici
    \/ AlignParkingStopParcheggioProtettoBiciclette
    \/ AlignParkingStopTaxi
    \/ AlignFare
    \/ AlignBikeSharingStop
    \/ AlignPublicTransportStop
    \/ AlignStopTime
    \/ AlignTrip
    \/ AlignRoute

Spec == Init /\ [][Next]_vars

(***************************************************************************)
(* Reference runs of the assembler on given sources                        *)
(***************************************************************************)

\* The collections of the model as one record.
Out ==
    [locations |-> locations, calendar_exceptions |-> calendar_exceptions,
     calendars |-> calendars, fare_rules |-> fare_rules, parking_stops |-> parking_stops,
     fares |-> fares, bike_sharing_stops |-> bike_sharing_stops,
     public_transport_stops |-> public_transport_stops, stop_times |-> stop_times,
     trips |-> trips, routes |-> routes]

\* The collections main starts from.
EmptyOut ==
    [locations |-> <<>>, calendar_exceptions |-> <<>>, calendars |-> <<>>,
     fare_rules |-> <<>>, parking_stops |-> <<>>, fares |-> <<>>,
     bike_sharing_stops |-> <<>>, public_transport_stops |-> <<>>, stop_times |-> <<>>,
     trips |-> <<>>, routes |-> <<>>]

\* One call of the schedule on the collections st, reading the feeds g, the fare
\* archives a, the KML feeds k and the bike-sharing feed b: the builder's result
\* and the collections after it.
Call(c, g, a, k, b, st) ==
    LET fn == c.fn
        tt == c.tt
        Put(r, field) == [res |-> r.res, out |-> [st EXCEPT ![field] = r.acc]]
    IN  CASE fn = "align_location_zone" ->
               Put(align_location_zone(a[tt], st.locations, tt), "locations")
          [] fn = "align_location_public_transport_stop" ->
               Put(align_location_public_transport_stop(g[tt], st.locations, tt), "locations")
          [] fn = "align_location_car_sharing" ->
               Put(align_location_car_sharing(k.car_sharing, st.locations), "locations")
          [] fn = "align_location_centro_in_bici" ->
               Put(align_location_centro_in_bici(k.centro_in_bici, st.locations), "locations")
          [] fn = "align_location_parcheggio_protetto_biciclette" ->
               Put(align_location_parcheggio_protetto_biciclette(
                       k.parcheggio_protetto_biciclette, st.locations), "locations")
          [] fn = "align_location_taxi" ->
               Put(align_location_taxi(k.taxi, st.locations), "locations")
          [] fn = "align_location_bike_sharing" ->
               Put(align_location_bike_sharing(b, st.locations), "locations")
          [] fn = "align_calendar_exception" ->
               Put(align_calendar_exception(g[tt], st.calendar_exceptions, tt),
                   "calendar_exceptions")
          [] fn = "align_calendar" ->
               Put(align_calendar(g[tt], st.calendars, tt), "calendars")
          [] fn = "align_fare_rule" ->
               Put(align_fare_rule(a[tt], st.fare_rules, tt), "fare_rules")
          [] fn = "align_parking_stop_car_sharing" ->
               Put(align_parking_stop_car_sharing(k.car_sharing, st.parking_stops),
                   "parking_stops")
          [] fn = "align_parking_stop_centro_in_bici" ->
               Put(align_parking_stop_centro_in_bici(k.centro_in_bici, st.parking_stops),
                   "parking_stops")
          [] fn = "align_parking_stop_parcheggio_protetto_biciclette" ->
               Put(align_parking_stop_parcheggio_protetto_biciclette(
                       k.parcheggio_protetto_biciclette, st.parking_stops), "parking_stops")
          [] fn = "align_parking_stop_taxi" ->
               Put(align_parking_stop_taxi(k.taxi, st.parking_stops), "parking_stops")
          [] fn = "align_fare" ->
               Put(align_fare(a[tt], st.fares, tt), "fares")
          [] fn = "align_bike_sharing_stop" ->
               Put(align_bike_sharing_stop(b, st.bike_sharing_stops), "bike_sharing_stops")
          [] fn = "align_public_transport_stop" ->
               Put(align_public_transport_stop(g[tt], st.public_transport_stops, tt),
                   "public_transport_stops")
          [] fn = "align_stop_time" ->
               Put(align_stop_time(g[tt], st.stop_times, tt), "stop_times")
          [] fn = "align_trip" ->
               Put(align_trip(g[tt], st.trips, tt), "trips")
          [] fn = "align_route" ->
               Put(align_route(g[tt], st.routes, tt), "routes")

\* The calls of sched from the i-th on: the run ends at the first call that does
\* not return Ok.
RECURSIVE RunFrom(_, _, _, _, _, _, _)
RunFrom(sched, i, g, a, k, b, st) ==
    IF i > Len(sched) THEN [res |-> "done", out |-> st]
    ELSE LET r == Call(sched[i], g, a, k, b, st)
         IN  IF r.res # "Ok" THEN [res |-> "aborted", out |-> r.out]
             ELSE RunFrom(sched, i + 1, g, a, k, b, r.out)

\* A whole run that takes the tier f first.
Run(g, a, k, b, f) == RunFrom(Schedules[f], 1, g, a, k, b, EmptyOut)

\* The orders in which a map holding the entries of s may be iterated.
Perms(s) == {p \in [1..Len(s) -> Range(s)] : Range(p) = Range(s)}

\* A feed whose maps are iterated in another order; a trip's stop times are a
\* Vec and keep their order.
Reordered(feed) ==
    {[stops |-> s, routes |-> r, calendar |-> c, calendar_dates |-> d, trips |-> t] :
        s \in Perms(feed.stops), r \in Perms(feed.routes), c \in Perms(feed.calendar),
        d \in Perms(feed.calendar_dates), t \in Perms(feed.trips)}

Reorderings(g) == {[tt \in TT |-> IF tt = Urban THEN u ELSE e] :
                      u \in Reordered(g[Urban]), e \in Reordered(g[ExtraUrban])}

(***************************************************************************)
(* Specification of the namespacer alone                                   *)
(***************************************************************************)

MaxRawLen == 2

\* Raw ids that spell the tier codes and the separator themselves.
RawIdChars == {"U", "E", "_", "1"}
NsRawIds == SeqsUpTo(RawIdChars, MaxRawLen)
NsPairs == {[tt |-> tt, id |-> id] : tt \in TT, id \in NsRawIds}

InitNs ==
    /\ ns_in \in {<<p, q>> : p \in NsPairs, q \in NsPairs}
    /\ ns_out = <<>>
    /\ gtfs = [t \in TT |-> BaseFeed]
    /\ archive = [t \in TT |-> BaseArchive]
    /\ kml = BaseKml
    /\ bike_sharing = BaseBikeSharing
    /\ first = Urban
    /\ pc = 1
    /\ status = "idle"
    /\ Empty
    /\ MainIdle

\* to_correct_id applied to both pairs.
Namespace ==
    /\ ns_in # <<>>
    /\ ns_out = <<>>
    /\ ns_out' = <<to_correct_id(ns_in[1].tt, ns_in[1].id),
                   to_correct_id(ns_in[2].tt, ns_in[2].id)>>
    /\ UNCHANGED <<ns_in, gtfs, archive, kml, bike_sharing, first, pc, status, main_vars, locations,
                   calendar_exceptions, calendars, fare_rules, parking_stops, fares,
                   bike_sharing_stops, public_transport_stops, stop_times, trips, routes>>

NextNs == Namespace

SpecNs == InitNs /\ [][NextNs]_vars

(***************************************************************************)
(* Specification of main.rs's main                                         *)
(***************************************************************************)

\* Feeds with one record a builder of main.rs does not accept.
BadFeeds ==
    {[BaseFeed EXCEPT !.stops[1].latitude = None],
     [BaseFeed EXCEPT !.routes[1].route_type = "Tramway"],
     [BaseFeed EXCEPT !.routes[1].agency_id = None],
     [BaseFeed EXCEPT !.trips[1].trip_headsign = None],
     [BaseFeed EXCEPT !.trips[1].stop_times[1].arrival_time = Some(31 * SecondsPerDay)]}

\* The agencies a feed may hold: none, one (complete, without id, without
\* phone, or another agency) or two.
AgencyLists ==
    {<<>>, BaseAgencies,
     <<Agency(Some(RawIdPool[2]), <<"X">>, Some(<<"1">>))>>,
     <<Agency(None, <<"T">>, Some(<<"0">>))>>,
     <<Agency(Some(RawIdPool[1]), <<"T">>, None)>>,
     BaseAgencies \o BaseAgencies}

\* What main reads at startup: one source family at a time leaves its base value.
MainSources ==
    \/ /\ agencies \in [TT -> AgencyLists]
       /\ gtfs = [t \in TT |-> BaseFeed]
       /\ archive = [t \in TT |-> BaseArchive]
    \/ /\ agencies = [t \in TT |-> BaseAgencies]
       /\ \E tt \in TT, f \in BadFeeds : gtfs = [t \in TT |-> IF t = tt THEN f ELSE BaseFeed]
       /\ archive = [t \in TT |-> BaseArchive]
    \/ /\ agencies = [t \in TT |-> BaseAgencies]
       /\ gtfs = [t \in TT |-> BaseFeed]
       /\ \E tt \in TT, a \in BadArchives :
              archive = [t \in TT |-> IF t = tt THEN a ELSE BaseArchive]

InitMain ==
    /\ NsIdle
    /\ MainSources
    /\ kml = BaseKml
    /\ bike_sharing = BaseBikeSharing
    /\ first = ExtraUrban
    /\ pc = 1
    /\ status = "running"
    /\ Empty
    /\ mem = EmptyMem
    /\ files = <<>>

\* The entity kinds of main in its order: the builder, the local collection it
\* fills and the file the collection is written to.
MainKinds ==
    <<[fn |-> "align_stops",           field |-> "stops",               file |-> "stop.json"],
      [fn |-> "align_stop_times",      field |-> "stop_times",          file |-> "stop_time.json"],
      [fn |-> "align_routes",          field |-> "routes",              file |-> "route.json"],
      [fn |-> "align_calendar",        field |-> "calendars",           file |-> "calendar.json"],
      [fn |-> "align_calendar_dates",  field |-> "calendars_exception",
       file |-> "calendar_exception.json"],
      [fn |-> "align_trips",           field |-> "trips",               file |-> "trip.json"],
      [fn |-> "align_zones",           field |-> "zones",               file |-> "zone.json"],
      [fn |-> "align_fare_attributes", field |-> "fares",               file |-> "fare.json"],
      [fn |-> "align_fare_rules",      field |-> "fare_rules",          file |-> "fare_rule.json"]>>

\* The enum files main writes last, each with the VARIANTS of its enum.
MainEnums ==
    <<[file |-> "stop_enum.json",
       value |-> <<"Generic", "BikeSharing", "BikeParking", "CarSharing", "Taxi">>],
      [file |-> "supported_enum.json", value |-> <<"Unknown", "Supported", "NotSupported">>],
      [file |-> "direction_enum.json", value |-> <<"Outbound", "Inbound">>],
      [file |-> "exception_enum.json", value |-> <<"Added", "Removed">>],
      [file |-> "transport_enum.json", value |-> <<"Rail", "Bus", "CableCar">>],
      [file |-> "fare_enum.json", value |-> <<"Cash", "Cartascalare", "Mobile">>],
      [file |-> "currency_enum.json", value |-> <<"EUR">>],
      [file |-> "payment_enum.json", value |-> <<"OnBoard", "BeforeBoarding">>]>>

\* The steps of main in order: the agency, then per kind the extra-urban call,
\* the urban call and the write of the kind's file, then the enum files.
MainSchedule ==
    <<[op |-> "agency", fn |-> "", tt |-> ExtraUrban, field |-> "agency", file |-> "agency.json"]>>
    \o Flatten([k \in 1..Len(MainKinds) |->
          <<[op |-> "align", fn |-> MainKinds[k].fn, tt |-> ExtraUrban,
             field |-> MainKinds[k].field, file |-> MainKinds[k].file],
            [op |-> "align", fn |-> MainKinds[k].fn, tt |-> Urban,
             field |-> MainKinds[k].field, file |-> MainKinds[k].file],
            [op |-> "write", fn |-> "", tt |-> Urban,
             field |-> MainKinds[k].field, file |-> MainKinds[k].file]>>])
    \o [k \in 1..Len(MainEnums) |->
          [op |-> "enum", fn |-> "", tt |-> Urban, field |-> "", file |-> MainEnums[k].file]]

\* The step main stands at.
MainCalling(op) == status = "running" /\ pc <= Len(MainSchedule) /\ MainSchedule[pc].op = op

\* A step ended with res: an Err leaves main through `?`, a panic ends the process.
MainReturn(res) ==
    /\ pc' = pc + 1
    /\ status' = IF res # "Ok" THEN "aborted"
                 ELSE IF pc = Len(MainSchedule) THEN "done" ELSE "running"

\* The builder call c on the locals m.
MainCall(c, m) ==
    CASE c.fn = "align_stops"           -> align_stops(gtfs[c.tt], m.stops, c.tt)
      [] c.fn = "align_stop_times"      -> align_stop_times(gtfs[c.tt], m.stop_times, c.tt)
      [] c.fn = "align_routes"          -> align_routes(gtfs[c.tt], m.routes, c.tt)
      [] c.fn = "align_calendar"        -> main_align_calendar(gtfs[c.tt], m.calendars, c.tt)
      [] c.fn = "align_calendar_dates"  ->
             align_calendar_dates(gtfs[c.tt], m.calendars_exception, c.tt)
      [] c.fn = "align_trips"           -> align_trips(gtfs[c.tt], m.trips, c.tt)
      [] c.fn = "align_zones"           -> align_zones(archive[c.tt], m.zones, c.tt)
      [] c.fn = "align_fare_attributes" -> align_fare_attributes(archive[c.tt], m.fares, c.tt)
      [] c.fn = "align_fare_rules"      -> align_fare_rules(archive[c.tt], m.fare_rules, c.tt)

main_unchanged ==
    <<inputs, agencies, locations, calendar_exceptions, calendars, fare_rules, parking_stops,
      fares, bike_sharing_stops, public_transport_stops, stop_times, trips, routes>>

\* The two assert!s on the agencies, the KdiAgency built from the agency of the
\* extra-urban feed, and the write of agency.json.
MainAgency ==
    /\ MainCalling("agency")
    /\ LET gtfs_agency == agencies[ExtraUrban][1]
           agency == [id    |-> Unwrap(gtfs_agency.id),
                      name  |-> gtfs_agency.name,
                      email |-> "info@trentinotrasporti.it",
                      phone |-> Unwrap(gtfs_agency.phone),
                      url   |-> gtfs_agency.url]
       IN  IF /\ Len(agencies[ExtraUrban]) = 1
              /\ Len(agencies[Urban]) = 1
              /\ IsSome(gtfs_agency.id)
              /\ IsSome(gtfs_agency.phone)
           THEN /\ mem' = [mem EXCEPT !.agency = Some(agency)]
                /\ files' = Append(files, [name |-> "agency.json", content |-> agency])
                /\ MainReturn("Ok")
           ELSE /\ UNCHANGED <<mem, files>>
                /\ MainReturn("Panic")
    /\ UNCHANGED main_unchanged

\* A builder call: the builder leaves its collection as it is when it returns.
MainAlign ==
    /\ MainCalling("align")
    /\ LET r == MainCall(MainSchedule[pc], mem)
       IN  mem' = [mem EXCEPT ![MainSchedule[pc].field] = r.acc] /\ MainReturn(r.res)
    /\ UNCHANGED <<main_unchanged, files>>

\* fs::write of a kind's collection.
MainWrite ==
    /\ MainCalling("write")
    /\ files' = Append(files, [name    |-> MainSchedule[pc].file,
                               content |-> mem[MainSchedule[pc].field]])
    /\ MainReturn("Ok")
    /\ UNCHANGED <<main_unchanged, mem>>

\* fs::write of an enum's VARIANTS.
MainWriteEnum ==
    /\ MainCalling("enum")
    /\ \E k \in 1..Len(MainEnums) :
           /\ MainEnums[k].file = MainSchedule[pc].file
           /\ files' = Append(files, [name |-> MainEnums[k].file, content |-> MainEnums[k].value])
    /\ MainReturn("Ok")
    /\ UNCHANGED <<main_unchanged, mem>>

NextMain ==
    \/ MainAgency
    \/ MainAlign
    \/ MainWrite
    \/ MainWriteEnum

SpecMain == InitMain /\ [][NextMain]_vars

(***************************************************************************)
(* Properties                                                              *)
(***************************************************************************)

Ids(s) == {s[i].id : i \in 1..Len(s)}

U_12 == to_correct_id(Urban, RawIdPool[1])
EU_12 == to_correct_id(ExtraUrban, RawIdPool[1])

\* C1: the namespacer is injective: two distinct (tier, raw id) pairs never get
\* the same canonical id; in particular one raw id under the two tiers does not.
NamespacerInjective ==
    ns_out # <<>> => (ns_in[1] # ns_in[2] => ns_out[1] # ns_out[2])

\* One raw id that spells a tier code, namespaced under both tiers.
NamespacerInjectiveWitness ==
    /\ ns_out # <<>>
    /\ ns_in[1] = [tt |-> Urban, id |-> <<"E", "U">>]
    /\ ns_in[2] = [tt |-> ExtraUrban, id |-> <<"E", "U">>]
    /\ ns_out = << <<"U", "_", "E", "U">>, <<"E", "U", "_", "E", "U">> >>

\* Every source holds each raw key once: the zones of each tier and the stations
\* of the bike-sharing feed (a feed's stops are a map, and the KML builders key
\* by position).
UniqueSourceKeys ==
    /\ \A tt \in TT : \A i, j \in 1..Len(archive[tt].zones) :
           i # j => archive[tt].zones[i].id # archive[tt].zones[j].id
    /\ \A tt \in TT : \A i, j \in 1..Len(gtfs[tt].stops) :
           i # j => gtfs[tt].stops[i].id # gtfs[tt].stops[j].id
    /\ \A i, j \in 1..Len(bike_sharing) : i # j => bike_sharing[i].id # bike_sharing[j].id

\* C2: after the whole run, no two Locations have the same id, provided every
\* source holds each of its raw keys once.
LocationIdsUnique ==
    status = "done" /\ UniqueSourceKeys =>
        \A i, j \in 1..Len(locations) : i # j => locations[i].id # locations[j].id

\* A finished run in which a zone, a stop of each tier and a bike-sharing
\* station all carry the raw id "12".
LocationIdsUniqueWitness ==
    /\ status = "done"
    /\ UniqueSourceKeys
    /\ {ZonePrefix(U_12), ZonePrefix(EU_12), U_12, EU_12,
        <<"B", "S", "_">> \o RawIdPool[1], <<"C", "S", "_", "0">>, <<"C", "S", "_", "1">>}
           \subseteq Ids(locations)

HasStop(feed, id) == \E i \in 1..Len(feed.stops) : feed.stops[i].id = id

CountId(s, id) == Cardinality({i \in 1..Len(s) : s[i].id = id})

\* C3: when both feeds have a stop with raw id "12", the merged Locations hold
\* exactly one entry with id "U_12" and exactly one with id "EU_12".
BothTwelvesRetained ==
    /\ status = "done"
    /\ HasStop(gtfs[Urban], RawIdPool[1])
    /\ HasStop(gtfs[ExtraUrban], RawIdPool[1])
    => CountId(locations, U_12) = 1 /\ CountId(locations, EU_12) = 1

\* A finished run on feeds that both have the stop "12", the extra-urban feed
\* listing it after another stop.
BothTwelvesRetainedWitness ==
    /\ status = "done"
    /\ HasStop(gtfs[Urban], RawIdPool[1])
    /\ Len(gtfs[ExtraUrban].stops) = 2
    /\ gtfs[ExtraUrban].stops[2].id = RawIdPool[1]
    /\ first = ExtraUrban
    /\ CountId(locations, U_12) = 1
    /\ CountId(locations, EU_12) = 1

\* C4: after the whole run, every Trip's route is the id of a Route and every
\* Trip's calendar is the id of a Calendar.
TripReferencesResolve ==
    status = "done" =>
        \A i \in 1..Len(trips) :
            trips[i].route \in Ids(routes) /\ trips[i].calendar \in Ids(calendars)

\* C5: after the whole run, every StopTime's trip is the id of a Trip and its
\* stop is the id of a Location.
StopTimeReferencesResolve ==
    status = "done" =>
        \A i \in 1..Len(stop_times) :
            stop_times[i].trip \in Ids(trips) /\ stop_times[i].stop \in Ids(locations)

\* A finished run with stop times of both tiers, the urban feed holding two
\* trips over two stops.
StopTimeReferencesResolveWitness ==
    /\ status = "done"
    /\ Len(gtfs[Urban].trips) = 2
    /\ Len(gtfs[Urban].stops) = 2
    /\ Len(stop_times) = 6
    /\ \E i, j \in 1..Len(stop_times) :
           /\ stop_times[i].stop = U_12
           /\ stop_times[j].stop = EU_12

\* C6: after the whole run, every FareRule's origin and destination are ids of
\* Locations, the ones filled with the default zone "0001" included.
FareRuleZonesResolve ==
    status = "done" =>
        \A i \in 1..Len(fare_rules) :
            fare_rules[i].origin \in Ids(locations)
                /\ fare_rules[i].destination \in Ids(locations)

\* C7: after the whole run, every CalendarException's calendar is the id of a
\* Calendar.
CalendarExceptionReferencesResolve ==
    status = "done" =>
        \A i \in 1..Len(calendar_exceptions) :
            calendar_exceptions[i].calendar \in Ids(calendars)

\* C8: a run on the same sources with the maps of the feeds iterated in any
\* other order ends with the same collections, entity by entity and in order.
IterationOrderIrrelevant ==
    status = "done" =>
        \A g \in Reorderings(gtfs) :
            Run(g, archive, kml, bike_sharing, first) = [res |-> "done", out |-> Out]

\* C9: a run that takes the other tier first ends with the same collections.
TierOrderIrrelevant ==
    status = "done" =>
        Run(gtfs, archive, kml, bike_sharing, Other(first)) = [res |-> "done", out |-> Out]

\* The last builder call of main.
LastAlign == Max({i \in 1..Len(MainSchedule) : MainSchedule[i].op = "align"})

\* The files that hold an entity kind.
EntityFiles == {"agency.json"} \cup {MainKinds[k].file : k \in 1..Len(MainKinds)}

WrittenEntityFiles == {i \in 1..Len(files) : files[i].name \in EntityFiles}

\* C11: an entity file is written only once every builder call of both tiers
\* has returned Ok, each entity file is written once, and a run that aborts
\* has written no entity file.
OutputAllOrNothing ==
    /\ WrittenEntityFiles # {} => status # "aborted" /\ pc > LastAlign
    /\ \A i, j \in WrittenEntityFiles : i # j => files[i].name # files[j].name
    /\ status = "aborted" => WrittenEntityFiles = {}

\* The route of the feeds that a Route was built from.
SourceRoutes(route) ==
    {r \in UNION {Range(gtfs[tt].routes) : tt \in TT} :
        \E tt \in TT : r \in Range(gtfs[tt].routes) /\ to_correct_id(tt, r.id) = route.id}

\* The calls of the schedule made so far.
Called == 1..(pc - 1)

\* C12: every Route carries the transport named like its source route type,
\* which is Rail, Bus or CableCar; and once align_route has been called on a
\* feed holding a route of any other type, the run is aborted.
RouteTypeMapping ==
    /\ \A i \in 1..Len(routes) :
           /\ routes[i].transport \in SupportedRouteTypes
           /\ \A r \in SourceRoutes(routes[i]) : r.route_type = routes[i].transport
    /\ \A k \in Called :
           /\ Schedule[k].fn = "align_route"
           /\ \E r \in Range(gtfs[Schedule[k].tt].routes) : r.route_type \notin SupportedRouteTypes
           => status = "aborted"

\* align_route has built a CableCar route and then met a Tramway route.
RouteTypeMappingWitness ==
    /\ status = "aborted"
    /\ Schedule[pc - 1].fn = "align_route"
    /\ \E i \in 1..Len(routes) : routes[i].transport = "CableCar"
    /\ \E r \in Range(gtfs[Schedule[pc - 1].tt].routes) : r.route_type = "Tramway"

\* The calls of the schedule that have returned Ok.
Returned == {k \in Called : k < pc - 1 \/ status # "aborted"}

\* The values of the claim's mapping tables.
SupportedOf(v) ==
    IF v \in {"Available", "AtLeastOneBike"} THEN "Supported"
    ELSE IF v \in {"NotAvailable", "NoBikesAllowed"} THEN "NotSupported"
    ELSE "Unknown"
DirectionOf(v) == IF v = "Outbound" THEN "Outbound" ELSE "Inbound"
ExceptionOf(v) == IF v = "Added" THEN "Added" ELSE "Removed"

\* C13: the vocabulary mappers are total.  Every builder call that maps
\* vocabulary values returns without failing on account of them, and leaves
\* for each source record an entity carrying Supported for Available and
\* AtLeastOneBike, NotSupported for NotAvailable and NoBikesAllowed, Unknown
\* for every other value, the direction under its own name, and Added or
\* Removed for an Added or Deleted exception.
VocabularyMappersTotal ==
    /\ status = "aborted" =>
           /\ Schedule[pc - 1].fn \notin {"align_public_transport_stop", "align_calendar_exception"}
           /\ Schedule[pc - 1].fn = "align_trip" =>
                  \E t \in Range(gtfs[Schedule[pc - 1].tt].trips) :
                      ~IsSome(t.trip_headsign) \/ ~IsSome(t.direction_id)
    /\ \A k \in Returned :
           LET tt == Schedule[k].tt IN
           /\ Schedule[k].fn = "align_trip" =>
                  \A t \in Range(gtfs[tt].trips) : \E i \in 1..Len(trips) :
                      /\ trips[i].id = to_correct_id(tt, t.id)
                      /\ trips[i].direction = DirectionOf(Unwrap(t.direction_id))
                      /\ trips[i].weelchair = SupportedOf(t.wheelchair_accessible)
                      /\ trips[i].bike = SupportedOf(t.bikes_allowed)
           /\ Schedule[k].fn = "align_public_transport_stop" =>
                  \A st \in Range(gtfs[tt].stops) : \E i \in 1..Len(public_transport_stops) :
                      /\ public_transport_stops[i].id = to_correct_id(tt, st.id)
                      /\ public_transport_stops[i].weelchair = SupportedOf(st.wheelchair_boarding)
           /\ Schedule[k].fn = "align_calendar_exception" =>
                  \A e \in Range(gtfs[tt].calendar_dates) : \A j \in 1..Len(e.dates) :
                      \E i \in 1..Len(calendar_exceptions) :
                          /\ calendar_exceptions[i].calendar = to_correct_id(tt, e.service_id)
                          /\ calendar_exceptions[i].date = FormatDateTime(e.dates[j].date, 0)
                          /\ calendar_exceptions[i].exception = ExceptionOf(e.dates[j].exception_type)

\* A finished run whose feed held an Inbound trip with unrecognised
\* wheelchair and bike values, and a Deleted exception.
VocabularyMappersTotalWitness ==
    /\ status = "done"
    /\ \E tt \in TT : \E t \in Range(gtfs[tt].trips) :
           /\ t.direction_id = Some("Inbound")
           /\ t.wheelchair_accessible = "InformationNotAvailable"
           /\ t.bikes_allowed = "Unknown"
    /\ \E i \in 1..Len(trips) :
           trips[i].direction = "Inbound" /\ trips[i].weelchair = "Unknown" /\ trips[i].bike = "Unknown"
    /\ \E i \in 1..Len(calendar_exceptions) : calendar_exceptions[i].exception = "Removed"

\* The fare types in the order of the tables align_fare reads.
FareTypes == <<"Cash", "Cartascalare", "Mobile">>

\* align_fare has returned Ok for the tier.
FaresBuilt(tt) == \E k \in Returned : Schedule[k].fn = "align_fare" /\ Schedule[k].tt = tt

\* The rows of the tier's three fare-attribute tables.
FaresDue(tt) ==
    Len(archive[tt].fare_attributes[1]) + Len(archive[tt].fare_attributes[2])
        + Len(archive[tt].fare_attributes[3])

\* C14: once align_fare has returned for a tier, the Fares with a given
\* tier-namespaced id and type are as many as the rows with that raw id in the
\* table of that type, so that each row has exactly one Fare, typed by its table
\* alone; and the accumulator holds no Fare beyond those of the tiers built.
OneFarePerRow ==
    /\ \A tt \in TT : FaresBuilt(tt) =>
           \A t \in 1..3 : \A row \in Range(archive[tt].fare_attributes[t]) :
               Cardinality({i \in 1..Len(fares) :
                               /\ fares[i].id = to_correct_id(tt, row.id)
                               /\ fares[i].ftype = FareTypes[t]})
                 = Cardinality({j \in 1..Len(archive[tt].fare_attributes[t]) :
                                   archive[tt].fare_attributes[t][j].id = row.id})
    /\ ~(status = "aborted" /\ Schedule[pc - 1].fn = "align_fare") =>
           Len(fares) = (IF FaresBuilt(Urban) THEN FaresDue(Urban) ELSE 0)
                          + (IF FaresBuilt(ExtraUrban) THEN FaresDue(ExtraUrban) ELSE 0)

\* Both tiers are built and one tier's cartascalare table holds two rows, one
\* of them with the id of the only cash row.
OneFarePerRowWitness ==
    /\ FaresBuilt(Urban) /\ FaresBuilt(ExtraUrban)
    /\ \E tt \in TT :
           /\ Len(archive[tt].fare_attributes[2]) = 2
           /\ \E j \in 1..2 :
                  archive[tt].fare_attributes[2][j].id = archive[tt].fare_attributes[1][1].id
    /\ \E i, j \in 1..Len(fares) :
           fares[i].id = fares[j].id /\ fares[i].ftype = "Cash" /\ fares[j].ftype = "Cartascalare"

\* The builder calls of main that have returned Ok.
MainReturned ==
    {k \in 1..(pc - 1) : MainSchedule[k].op = "align" /\ (k < pc - 1 \/ status # "aborted")}

\* C15: no FareRule has an absent origin or destination, and once the
\* fare-rule builder has returned for a tier, a row of the tier without an
\* origin (a destination) has a FareRule whose origin (destination) is the
\* ZONE_-prefixed, tier-namespaced sentinel 0001.
SentinelZoneSubstituted ==
    /\ \A i \in 1..Len(mem.fare_rules) :
           IsSome(mem.fare_rules[i].origin_id) /\ IsSome(mem.fare_rules[i].destination_id)
    /\ \A k \in MainReturned : MainSchedule[k].fn = "align_fare_rules" =>
           LET tt       == MainSchedule[k].tt
               sentinel == Some(ZonePrefix(to_correct_id(tt, kdi_fare_rule_default)))
           IN  \A t \in 1..3 : \A row \in Range(archive[tt].fare_rules[t]) :
                   /\ ~IsSome(row.ORIGIN_ID) =>
                          \E i \in 1..Len(mem.fare_rules) :
                              /\ mem.fare_rules[i].fare_id = to_correct_id(tt, row.FARE_ID)
                              /\ mem.fare_rules[i].origin_id = sentinel
                   /\ ~IsSome(row.DESTINATION_ID) =>
                          \E i \in 1..Len(mem.fare_rules) :
                              /\ mem.fare_rules[i].fare_id = to_correct_id(tt, row.FARE_ID)
                              /\ mem.fare_rules[i].destination_id = sentinel

\* The number a two-digit field of a timestamp shows.
DigitVal(c) == CHOOSE n \in 0..9 : DigitChar(n) = c
Num2(str, i) == 10 * DigitVal(str[i]) + DigitVal(str[i + 1])

\* out is the timestamp of the source value src: absent for absent, otherwise
\* YYYY-MM-DDTHH:MM:SS in the epoch month 0000-01 with the day and the time of
\* day of the claim.
Decodes(src, out) ==
    IF ~IsSome(src) THEN out = None
    ELSE /\ IsSome(out)
         /\ LET str == Unwrap(out)
                sec == Unwrap(src)
            IN  /\ Len(str) = 19
                /\ SubSeq(str, 1, 8) = <<"0", "0", "0", "0", "-", "0", "1", "-">>
                /\ str[11] = "T" /\ str[14] = ":" /\ str[17] = ":"
                /\ Num2(str, 9) = 1 + (sec \div 86400)
                /\ 3600 * Num2(str, 12) + 60 * Num2(str, 15) + Num2(str, 18) = sec % 86400
                /\ Num2(str, 15) < 60 /\ Num2(str, 18) < 60
                /\ sec = 90000 =>
                       SubSeq(str, 9, 19) = <<"0", "2", "T", "0", "1", ":", "0", "0", ":", "0", "0">>

\* C16: once align_stop_time has returned for a tier, every stop time of the
\* tier has a StopTime whose arrival and departure are absent where the source
\* is absent and otherwise show day 1 + floor(s / 86400) of the epoch month and
\* the time of day s mod 86400; 90000 shows day 02 and 01:00:00.
StopTimestampsDecoded ==
    \A k \in Returned : Schedule[k].fn = "align_stop_time" =>
        \A trip \in Range(gtfs[Schedule[k].tt].trips) : \A st \in Range(trip.stop_times) :
            \E i \in 1..Len(stop_times) :
                /\ stop_times[i].trip = to_correct_id(Schedule[k].tt, trip.id)
                /\ stop_times[i].sequence = st.stop_sequence
                /\ Decodes(st.arrival_time, stop_times[i].arrival)
                /\ Decodes(st.departure_time, stop_times[i].departure)

\* A finished run with a stop time arriving at 90000 and no departure.
StopTimestampsDecodedWitness ==
    /\ status = "done"
    /\ \E tt \in TT : \E trip \in Range(gtfs[tt].trips) : \E st \in Range(trip.stop_times) :
           st.arrival_time = Some(90000) /\ st.departure_time = None
    /\ \E i \in 1..Len(stop_times) :
           /\ stop_times[i].departure = None
           /\ IsSome(stop_times[i].arrival)
           /\ SubSeq(Unwrap(stop_times[i].arrival), 9, 19)
                  = <<"0", "2", "T", "0", "1", ":", "0", "0", ":", "0", "0">>

\* The four KML location builders: the feed each reads and its id prefix.
KmlLocationBuilders ==
    {[fn |-> "align_location_car_sharing", field |-> "car_sharing", prefix |-> <<"C", "S">>],
     [fn |-> "align_location_centro_in_bici", field |-> "centro_in_bici",
      prefix |-> <<"C", "I", "B">>],
     [fn |-> "align_location_parcheggio_protetto_biciclette",
      field |-> "parcheggio_protetto_biciclette", prefix |-> <<"P", "P", "B">>],
     [fn |-> "align_location_taxi", field |-> "taxi", prefix |-> <<"T", "X">>]}

\* The coordinate strings "a,b" with a and b in hundredths.
CoordinateTable ==
    {[str |-> <<"1", "1", ".", "1", "2", ",", "4", "6", ".", "0", "7">>, a |-> 1112, b |-> 4607],
     [str |-> <<"4", "6", ".", "0", "7", ",", "1", "1", ".", "1", "2">>, a |-> 4607, b |-> 1112],
     [str |-> <<"7", ",", "8", ".", "5">>, a |-> 700, b |-> 850]}

\* C17: once a KML location builder has returned, the placemark at each
\* position of its feed whose coordinates read "a,b" has a Location, under
\* the builder's prefix and that position, with longitude a and latitude b.
LongitudeFirst ==
    \A k \in Returned : \A builder \in KmlLocationBuilders :
        Schedule[k].fn = builder.fn =>
            \A j \in 1..Len(kml[builder.field]) : \A c \in CoordinateTable :
                kml[builder.field][j].coordinates = c.str =>
                    \E i \in 1..Len(locations) :
                        /\ locations[i].id = builder.prefix \o <<"_">> \o to_string(j - 1)
                        /\ locations[i].longitude = c.a
                        /\ locations[i].latitude = c.b

\* A finished run whose taxi feed reads "7,8.5" and whose first taxi Location
\* lies at longitude 7 and latitude 8.5.
LongitudeFirstWitness ==
    /\ status = "done"
    /\ Len(kml.taxi) = 1
    /\ kml.taxi[1].coordinates = <<"7", ",", "8", ".", "5">>
    /\ \E i \in 1..Len(locations) :
           /\ locations[i].id = <<"T", "X", "_", "0">>
           /\ locations[i].longitude = 700
           /\ locations[i].latitude = 850

\* C18: main holds and writes at most one Agency, whose id, name, phone and
\* url are those of the urban feed's agency, and main is aborted at its first
\* step unless both feeds hold exactly one agency.
AgencyFromUrban ==
    /\ Cardinality({i \in 1..Len(files) : files[i].name = "agency.json"}) <= 1
    /\ pc > 1 /\ (Len(agencies[Urban]) # 1 \/ Len(agencies[ExtraUrban]) # 1) =>
           status = "aborted" /\ mem.agency = None
    /\ IsSome(mem.agency) =>
           /\ Len(agencies[Urban]) = 1 /\ Len(agencies[ExtraUrban]) = 1
           /\ Some(Unwrap(mem.agency).id) = agencies[Urban][1].id
           /\ Unwrap(mem.agency).name = agencies[Urban][1].name
           /\ Some(Unwrap(mem.agency).phone) = agencies[Urban][1].phone
           /\ Unwrap(mem.agency).url = agencies[Urban][1].url
           /\ \A i \in 1..Len(files) : files[i].name = "agency.json" =>
                  files[i].content = Unwrap(mem.agency)

\* The foreign keys of the GTFS entities other than Route hold the raw ids of
\* their source record under the tier of that record.
ForeignKeysOfTier ==
    /\ \A i \in 1..Len(trips) : \E tt \in TT : \E t \in Range(gtfs[tt].trips) :
           /\ trips[i].id = to_correct_id(tt, t.id)
           /\ trips[i].route = to_correct_id(tt, t.route_id)
           /\ trips[i].calendar = to_correct_id(tt, t.service_id)
    /\ \A i \in 1..Len(stop_times) : \E tt \in TT : \E t \in Range(gtfs[tt].trips) :
           \E st \in Range(t.stop_times) :
               /\ stop_times[i].sequence = st.stop_sequence
               /\ stop_times[i].trip = to_correct_id(tt, t.id)
               /\ stop_times[i].stop = to_correct_id(tt, st.stop.id)
    /\ \A i \in 1..Len(calendar_exceptions) : \E tt \in TT :
           \E e \in Range(gtfs[tt].calendar_dates) : \E cd \in Range(e.dates) :
               /\ calendar_exceptions[i].date = FormatDateTime(cd.date, 0)
               /\ calendar_exceptions[i].calendar = to_correct_id(tt, cd.service_id)
    /\ \A i \in 1..Len(fare_rules) : \E tt \in TT : \E t \in 1..3 :
           \E row \in Range(archive[tt].fare_rules[t]) :
               /\ fare_rules[i].fare = to_correct_id(tt, row.FARE_ID)
               /\ fare_rules[i].origin =
                      ZonePrefix(to_correct_id(tt, DeserializeFareRule(row).origin))
               /\ fare_rules[i].destination =
                      ZonePrefix(to_correct_id(tt, DeserializeFareRule(row).destination))

\* C19: every foreign key of an entity is the raw id it refers to, namespaced
\* with the tier of the entity's source record: the route and calendar of a
\* Trip, the trip and stop of a StopTime, the calendar of a CalendarException,
\* the fare of a FareRule (its zones with ZONE_ in front) and the agency of a
\* Route.
ForeignKeysNamespaced ==
    /\ ForeignKeysOfTier
    /\ \A i \in 1..Len(routes) : \E tt \in TT : \E r \in Range(gtfs[tt].routes) :
           /\ routes[i].id = to_correct_id(tt, r.id)
           /\ IsSome(r.agency_id)
           /\ routes[i].agency = to_correct_id(tt, Unwrap(r.agency_id))

\* C20: after each call of the calendar-exception builder that returns, the
\* CalendarExceptions are in non-decreasing order of (calendar, date).
CalendarExceptionsByCalendarDate ==
    LET Cmp(a, b) == ThenWith(StrCmp(a.calendar, b.calendar), StrCmp(a.date, b.date))
    IN  pc > 1 /\ Schedule[pc - 1].fn = "align_calendar_exception" /\ status # "aborted"
            => IsSortedBy(calendar_exceptions, Cmp)

\* C10: after every builder call that returned Ok, each collection is in
\* non-decreasing order of its key: id for Location, Calendar, Fare, Trip and
\* Route, location for ParkingStop, BikeSharingStop and PublicTransportStop,
\* (trip, sequence) for StopTime.
AccumulatorsSorted ==
    status # "aborted" =>
        /\ IsSortedBy(locations, IdCmp)
        /\ IsSortedBy(calendars, IdCmp)
        /\ IsSortedBy(fares, IdCmp)
        /\ IsSortedBy(trips, IdCmp)
        /\ IsSortedBy(routes, IdCmp)
        /\ IsSortedBy(parking_stops, LocationCmp)
        /\ IsSortedBy(bike_sharing_stops, LocationCmp)
        /\ IsSortedBy(public_transport_stops, LocationCmp)
        /\ IsSortedBy(stop_times, StopTimeCmp)

\* align_fare_rule has returned Ok for the tier.
FareRulesBuilt(tt) ==
    \E k \in Returned : Schedule[k].fn = "align_fare_rule" /\ Schedule[k].tt = tt

\* The rows of the tier's fare-rule tables in the order the builder reads them:
\* cash, cartascalare, mobile.
FareRuleRowsOf(tt) ==
    archive[tt].fare_rules[1] \o archive[tt].fare_rules[2] \o archive[tt].fare_rules[3]

\* C21: after each call of the fare-rule builder that returns, the FareRules
\* are in non-decreasing order of fare, and the FareRules of one fare are those
\* of the rows with that fare in the order they were appended (cash rows, then
\* cartascalare rows, then mobile rows), whatever their origin and destination.
FareRulesByFareStable ==
    pc > 1 /\ Schedule[pc - 1].fn = "align_fare_rule" /\ status # "aborted" =>
        /\ \A i \in 1..Len(fare_rules) - 1 :
               StrCmp(fare_rules[i].fare, fare_rules[i + 1].fare) <= 0
        /\ \A tt \in TT : FareRulesBuilt(tt) =>
               \A x \in {FareRuleRowsOf(tt)[j].FARE_ID : j \in 1..Len(FareRuleRowsOf(tt))} :
                   LET OfFare(fr) == fr.fare = to_correct_id(tt, x)
                       OfRow(row) == row.FARE_ID = x
                       built      == SelectSeq(fare_rules, OfFare)
                       rows       == SelectSeq(FareRuleRowsOf(tt), OfRow)
                   IN  /\ Len(built) = Len(rows)
                       /\ \A j \in 1..Len(rows) :
                              /\ built[j].origin = ZonePrefix(to_correct_id(tt,
                                     DeserializeFareRule(rows[j]).origin))
                              /\ built[j].destination = ZonePrefix(to_correct_id(tt,
                                     DeserializeFareRule(rows[j]).destination))

\* The builder has returned and two FareRules of one fare stand with the
\* greater origin first.
FareRulesByFareStableWitness ==
    /\ pc > 1 /\ Schedule[pc - 1].fn = "align_fare_rule" /\ status # "aborted"
    /\ \E i, j \in 1..Len(fare_rules) :
           /\ i < j
           /\ fare_rules[i].fare = fare_rules[j].fare
           /\ StrCmp(fare_rules[i].origin, fare_rules[j].origin) > 0

\* The collection a builder call appends to and the source records it reads.
Consumes(c) ==
    LET fn == c.fn
        g  == gtfs[c.tt]
        a  == archive[c.tt]
        To(field, n) == [field |-> field, n |-> n]
    IN  CASE fn = "align_location_zone" -> To("locations", Len(a.zones))
          [] fn = "align_location_public_transport_stop" -> To("locations", Len(g.stops))
          [] fn = "align_location_car_sharing" -> To("locations", Len(kml.car_sharing))
          [] fn = "align_location_centro_in_bici" -> To("locations", Len(kml.centro_in_bici))
          [] fn = "align_location_parcheggio_protetto_biciclette" ->
               To("locations", Len(kml.parcheggio_protetto_biciclette))
          [] fn = "align_location_taxi" -> To("locations", Len(kml.taxi))
          [] fn = "align_location_bike_sharing" -> To("locations", Len(bike_sharing))
          [] fn = "align_calendar_exception" ->
               To("calendar_exceptions",
                  Len(Flatten([k \in 1..Len(g.calendar_dates) |-> g.calendar_dates[k].dates])))
          [] fn = "align_calendar" -> To("calendars", Len(g.calendar))
          [] fn = "align_fare_rule" ->
               To("fare_rules", Len(a.fare_rules[1] \o a.fare_rules[2] \o a.fare_rules[3]))
          [] fn = "align_parking_stop_car_sharing" -> To("parking_stops", Len(kml.car_sharing))
          [] fn = "align_parking_stop_centro_in_bici" ->
               To("parking_stops", Len(kml.centro_in_bici))
          [] fn = "align_parking_stop_parcheggio_protetto_biciclette" ->
               To("parking_stops", Len(kml.parcheggio_protetto_biciclette))
          [] fn = "align_parking_stop_taxi" -> To("parking_stops", Len(kml.taxi))
          [] fn = "align_fare" ->
               To("fares", Len(a.fare_attributes[1] \o a.fare_attributes[2]
                                   \o a.fare_attributes[3]))
          [] fn = "align_bike_sharing_stop" -> To("bike_sharing_stops", Len(bike_sharing))
          [] fn = "align_public_transport_stop" -> To("public_transport_stops", Len(g.stops))
          [] fn = "align_stop_time" ->
               To("stop_times", Len(Flatten([k \in 1..Len(g.trips) |-> g.trips[k].stop_times])))
          [] fn = "align_trip" -> To("trips", Len(g.trips))
          [] fn = "align_route" -> To("routes", Len(g.routes))

\* How often the entity e stands in the collection q.
Occurrences(e, q) == Cardinality({i \in 1..Len(q) : q[i] = e})

\* A builder call that returns Ok keeps every entity of every collection and
\* lengthens the collection it appends to by the records it read.
AdditiveStep ==
    pc' = pc + 1 /\ status' # "aborted" =>
        \A field \in DOMAIN Out :
            /\ \A e \in Range(Out[field]) :
                   Occurrences(e, Out'[field]) >= Occurrences(e, Out[field])
            /\ Len(Out'[field]) =
                   Len(Out[field])
                     + (IF field = Consumes(Schedule[pc]).field THEN Consumes(Schedule[pc]).n
                        ELSE 0)

\* C22: every builder call that returns Ok is additive: each entity that was
\* in the accumulator is still in it unchanged, and the accumulator grows by
\* exactly the number of source records the builder read for the tier.
BuildersAdditive == [][AdditiveStep]_vars

\* The second align_fare call has returned: the fares of the extra-urban tier
\* stand before the urban fares that were built first.
BuildersAdditiveWitness ==
    /\ first = Urban
    /\ pc > 1 /\ Schedule[pc - 1] = [fn |-> "align_fare", tt |-> ExtraUrban]
    /\ status # "aborted"
    /\ Len(fares) >= 3
    /\ \E i, j \in 1..Len(fares) :
           /\ i < j
           /\ fares[i].id = to_correct_id(ExtraUrban, RawIdPool[1])
           /\ fares[j].id = to_correct_id(Urban, RawIdPool[1])

\* C23: once a KML location builder has been called on a feed with a placemark
\* whose coordinate string does not have exactly one comma (one component, or
\* three or more), the run is aborted in that call and no Location stands
\* under the placemark's position.
CoordinateArityFatal ==
    \A k \in Called : \A builder \in KmlLocationBuilders :
        Schedule[k].fn = builder.fn =>
            \A j \in 1..Len(kml[builder.field]) :
                LET str == kml[builder.field][j].coordinates
                IN  Cardinality({n \in 1..Len(str) : str[n] = ","}) # 1 =>
                        /\ status = "aborted"
                        /\ k = pc - 1
                        /\ \A i \in 1..Len(locations) :
                               locations[i].id # builder.prefix \o <<"_">> \o to_string(j - 1)

\* align_location_taxi has pushed the Location of the first placemark and has
\* aborted on the second, whose coordinates read "7,8.5,0".
CoordinateArityFatalWitness ==
    /\ status = "aborted"
    /\ Schedule[pc - 1].fn = "align_location_taxi"
    /\ Len(kml.taxi) = 2
    /\ kml.taxi[2].coordinates = <<"7", ",", "8", ".", "5", ",", "0">>
    /\ \E i \in 1..Len(locations) : locations[i].id = <<"T", "X", "_", "0">>

\* The KML builders: the feed each reads, its id prefix, the collection it
\* appends to and the field names it looks up.
KmlBuilders ==
    {[fn |-> "align_location_car_sharing", field |-> "car_sharing", prefix |-> <<"C", "S">>,
      coll |-> "locations", names |-> {"nomepos"}],
     [fn |-> "align_location_centro_in_bici", field |-> "centro_in_bici",
      prefix |-> <<"C", "I", "B">>, coll |-> "locations", names |-> {"desc"}],
     [fn |-> "align_location_parcheggio_protetto_biciclette",
      field |-> "parcheggio_protetto_biciclette", prefix |-> <<"P", "P", "B">>,
      coll |-> "locations", names |-> {"park"}],
     [fn |-> "align_location_taxi", field |-> "taxi", prefix |-> <<"T", "X">>,
      coll |-> "locations", names |-> {"nome"}],
     [fn |-> "align_parking_stop_car_sharing", field |-> "car_sharing",
      prefix |-> <<"C", "S">>, coll |-> "parking_stops", names |-> {"via", "auto"}],
     [fn |-> "align_parking_stop_centro_in_bici", field |-> "centro_in_bici",
      prefix |-> <<"C", "I", "B">>, coll |-> "parking_stops",
      names |-> {"desc", "cicloposteggi"}],
     [fn |-> "align_parking_stop_parcheggio_protetto_biciclette",
      field |-> "parcheggio_protetto_biciclette", prefix |-> <<"P", "P", "B">>,
      coll |-> "parking_stops", names |-> {"via", "posti"}],
     [fn |-> "align_parking_stop_taxi", field |-> "taxi", prefix |-> <<"T", "X">>,
      coll |-> "parking_stops", names |-> {"indirizzo"}]}

\* The field names of a placemark's name/value list.
FieldNames(placemark) == {placemark.simple_datas[n].name : n \in 1..Len(placemark.simple_datas)}

\* C24: once a KML builder has been called on a feed with a placemark that
\* lacks a field name the builder looks up, the run is aborted in that call
\* and the builder's collection holds no entity under the placemark's
\* position.
MissingFieldFatal ==
    \A k \in Called : \A builder \in KmlBuilders :
        Schedule[k].fn = builder.fn =>
            \A j \in 1..Len(kml[builder.field]) :
                ~(builder.names \subseteq FieldNames(kml[builder.field][j])) =>
                    /\ status = "aborted"
                    /\ k = pc - 1
                    /\ \A i \in 1..Len(Out[builder.coll]) :
                           Out[builder.coll][i].id # builder.prefix \o <<"_">> \o to_string(j - 1)

\* align_parking_stop_car_sharing has pushed the ParkingStop of the first
\* placemark and has aborted on the second, which has no "auto" field.
MissingFieldFatalWitness ==
    /\ status = "aborted"
    /\ Schedule[pc - 1].fn = "align_parking_stop_car_sharing"
    /\ Len(kml.car_sharing) = 2
    /\ FieldNames(kml.car_sharing[2]) = {"nomepos", "via"}
    /\ \E i \in 1..Len(parking_stops) : parking_stops[i].id = <<"C", "S", "_", "0">>

\* The points-of-interest families: the feed, the id prefix, the two builders
\* and the ParkingStop type.
KmlFamilies ==
    {[field |-> "car_sharing", prefix |-> <<"C", "S">>, ptype |-> "CarSharing",
      location_fn |-> "align_location_car_sharing",
      parking_fn |-> "align_parking_stop_car_sharing"],
     [field |-> "centro_in_bici", prefix |-> <<"C", "I", "B">>, ptype |-> "BikeSharing",
      location_fn |-> "align_location_centro_in_bici",
      parking_fn |-> "align_parking_stop_centro_in_bici"],
     [field |-> "parcheggio_protetto_biciclette", prefix |-> <<"P", "P", "B">>,
      ptype |-> "BikeParking",
      location_fn |-> "align_location_parcheggio_protetto_biciclette",
      parking_fn |-> "align_parking_stop_parcheggio_protetto_biciclette"],
     [field |-> "taxi", prefix |-> <<"T", "X">>, ptype |-> "Taxi",
      location_fn |-> "align_location_taxi", parking_fn |-> "align_parking_stop_taxi"]}

\* C25: once the location builder and the parking-stop builder of a family
\* have both returned, the placemark at each 0-based position i of the
\* family's feed has a Location with id "<prefix>_<i>" and a ParkingStop with
\* that id as its location and the family's type; and every ParkingStop under
\* the family's prefix has the family's type and the id of a Location as its
\* location.
ParkingStopsMatchLocations ==
    \A family \in KmlFamilies :
        (\E k \in Returned : Schedule[k].fn = family.location_fn)
        /\ (\E k \in Returned : Schedule[k].fn = family.parking_fn) =>
            /\ \A j \in 1..Len(kml[family.field]) :
                   LET id == family.prefix \o <<"_">> \o to_string(j - 1)
                   IN  /\ \E i \in 1..Len(locations) : locations[i].id = id
                       /\ \E i \in 1..Len(parking_stops) :
                              /\ parking_stops[i].location = id
                              /\ parking_stops[i].ptype = family.ptype
            /\ \A i \in 1..Len(parking_stops) :
                   SubSeq(parking_stops[i].location, 1, Len(family.prefix) + 1)
                       = family.prefix \o <<"_">> =>
                       /\ parking_stops[i].ptype = family.ptype
                       /\ \E n \in 1..Len(locations) :
                              locations[n].id = parking_stops[i].location

\* A finished run on a centro-in-bici feed of two placemarks: the ParkingStop
\* of the second is a BikeSharing stop at the Location CIB_1.
ParkingStopsMatchLocationsWitness ==
    /\ status = "done"
    /\ Len(kml.centro_in_bici) = 2
    /\ \E i \in 1..Len(parking_stops) :
           /\ parking_stops[i].location = <<"C", "I", "B", "_", "1">>
           /\ parking_stops[i].ptype = "BikeSharing"
    /\ \E i \in 1..Len(locations) : locations[i].id = <<"C", "I", "B", "_", "1">>

\* Once align_public_transport_stop has returned for a tier, every stop of the
\* tier has a PublicTransportStop whose location is the tier-namespaced stop
\* id, the id of a Location, and whose zone is ZONE_ and the tier-namespaced
\* zone id when the stop has a zone id and absent otherwise.
PublicTransportStopsOfTier ==
    \A k \in Returned : Schedule[k].fn = "align_public_transport_stop" =>
        \A st \in Range(gtfs[Schedule[k].tt].stops) :
            \E i \in 1..Len(public_transport_stops) :
                /\ public_transport_stops[i].location = to_correct_id(Schedule[k].tt, st.id)
                /\ public_transport_stops[i].location \in Ids(locations)
                /\ public_transport_stops[i].zone =
                       (IF IsSome(st.zone_id)
                        THEN Some(ZonePrefix(to_correct_id(Schedule[k].tt, Unwrap(st.zone_id))))
                        ELSE None)

\* C26: a PublicTransportStop's location is the tier-namespaced stop id, its
\* zone is ZONE_<tier>_<raw zone id> exactly when the stop has a zone id, and
\* in a finished run every zone that is present is the id of a Location.
PublicTransportStopZones ==
    /\ PublicTransportStopsOfTier
    /\ status = "done" =>
           \A i \in 1..Len(public_transport_stops) :
               IsSome(public_transport_stops[i].zone) =>
                   Unwrap(public_transport_stops[i].zone) \in Ids(locations)

\* The two fields each two-field parking-stop builder looks up.
ParkingLookups ==
    {[fn |-> "align_parking_stop_car_sharing", field |-> "car_sharing",
      prefix |-> <<"C", "S">>, address |-> "via", slots |-> "auto"],
     [fn |-> "align_parking_stop_centro_in_bici", field |-> "centro_in_bici",
      prefix |-> <<"C", "I", "B">>, address |-> "desc", slots |-> "cicloposteggi"],
     [fn |-> "align_parking_stop_parcheggio_protetto_biciclette",
      field |-> "parcheggio_protetto_biciclette", prefix |-> <<"P", "P", "B">>,
      address |-> "via", slots |-> "posti"]}

\* The value a placemark's name/value list holds under a name it contains.
ValueOf(placemark, name) ==
    (CHOOSE d \in Range(placemark.simple_datas) : d.name = name).value

\* C27: once a two-field parking-stop builder has been called on a feed whose
\* placemarks all contain both field names it looks up, the call has returned
\* Ok and the ParkingStop of each placemark holds the value of the address
\* field and the number in the slots field, in whatever order the fields are.
FieldOrderIrrelevant ==
    \A k \in Called : \A b \in ParkingLookups :
        (/\ Schedule[k].fn = b.fn
         /\ \A j \in 1..Len(kml[b.field]) :
                {b.address, b.slots} \subseteq FieldNames(kml[b.field][j])) =>
            /\ k \in Returned
            /\ \A j \in 1..Len(kml[b.field]) :
                   \E i \in 1..Len(parking_stops) :
                       /\ parking_stops[i].id = b.prefix \o <<"_">> \o to_string(j - 1)
                       /\ parking_stops[i].address = ValueOf(kml[b.field][j], b.address)
                       /\ Some(parking_stops[i].total_slots) =
                              ParseUsize(ValueOf(kml[b.field][j], b.slots))

\* C28: once align_stop_time has been called for a tier, the call has returned
\* Ok and every stop time of the tier has its StopTime, whatever seconds value
\* its arrival and departure hold.
StopTimeNeverAborts ==
    \A k \in Called : Schedule[k].fn = "align_stop_time" =>
        /\ k \in Returned
        /\ \A trip \in Range(gtfs[Schedule[k].tt].trips) : \A st \in Range(trip.stop_times) :
               \E i \in 1..Len(stop_times) :
                   /\ stop_times[i].trip = to_correct_id(Schedule[k].tt, trip.id)
                   /\ stop_times[i].sequence = st.stop_sequence

\* C29: when main has finished, every Route it holds, of either tier, has the
\* id of the Agency main has emitted as its agency.
RoutesOfEmittedAgency ==
    status = "done" =>
        /\ IsSome(mem.agency)
        /\ \A i \in 1..Len(mem.routes) : mem.routes[i].agency_id = Unwrap(mem.agency).id

\* The fare-archive builders, which end early on an Err alone, and the rows
\* each deserializes.
ArchiveRows(c) ==
    LET a == archive[c.tt]
    IN  CASE c.fn = "align_location_zone" -> a.zones
          [] c.fn = "align_fare" ->
               a.fare_attributes[1] \o a.fare_attributes[2] \o a.fare_attributes[3]
          [] c.fn = "align_fare_rule" -> a.fare_rules[1] \o a.fare_rules[2] \o a.fare_rules[3]
          [] OTHER -> <<>>

\* A fare-archive builder call that returns Err on a row that does not
\* deserialize leaves every collection as it was before the call.
ErrKeepsAccumulator ==
    (/\ pc' = pc + 1
     /\ status' = "aborted"
     /\ \E row \in Range(ArchiveRows(Schedule[pc])) : ~row.valid) => Out' = Out

\* C30: a builder call that returns an error leaves the accumulator passed to
\* it exactly as it was before the call: no entity of the failing call stays
\* appended.
ErrorLeavesAccumulator == [][ErrKeepsAccumulator]_vars

====
